---------------------------- MODULE Spec2Model ----------------------------
(***************************************************************************)
(* A model of the TDS Virtual TA answer pipeline (api/virtual_ta):         *)
(*   - validate_response_structure         (views.py, utils.py)            *)
(*   - MultiAIService / AIService          (ai_service.py)                 *)
(*   - virtual_ta_api                      (views.py)                      *)
(* Python strings are modelled as sequences of one-character strings, so   *)
(* that strip, slicing, startswith, substring tests and len are computed.  *)
(***************************************************************************)
EXTENDS Integers, Sequences, FiniteSets, TLC

(***************************************************************************)
(* Strings                                                                 *)
(***************************************************************************)

\* The characters str.strip() and \s treat as white space.
Whitespace == {" ", "\n", "\t"}

UpperChars ==
    <<"A","B","C","D","E","F","G","H","I","J","K","L","M",
      "N","O","P","Q","R","S","T","U","V","W","X","Y","Z">>

LowerChars ==
    <<"a","b","c","d","e","f","g","h","i","j","k","l","m",
      "n","o","p","q","r","s","t","u","v","w","x","y","z">>

DigitChars == <<"0","1","2","3","4","5","6","7","8","9">>

SetMin(S) == CHOOSE m \in S : \A k \in S : m <= k

\* The list with the items of f, f a function on 1..n
AsList(f) == f \o <<>>

\* c * n
Rep(c, n) == AsList([i \in 1..n |-> c])

LowerChar(c) ==
    IF \E i \in 1..Len(UpperChars) : UpperChars[i] = c
    THEN LowerChars[CHOOSE i \in 1..Len(UpperChars) : UpperChars[i] = c]
    ELSE c

\* str.lower()
Lower(s) == AsList([i \in 1..Len(s) |-> LowerChar(s[i])])

RECURSIVE FirstKept(_, _)
\* index of the first character of s at or after i that is not white space
FirstKept(s, i) ==
    IF i > Len(s) \/ s[i] \notin Whitespace THEN i ELSE FirstKept(s, i + 1)

RECURSIVE LastKept(_, _)
\* index of the last character of s at or before i that is not white space
LastKept(s, i) ==
    IF i < 1 \/ s[i] \notin Whitespace THEN i ELSE LastKept(s, i - 1)

\* str.strip()
Strip(s) == SubSeq(s, FirstKept(s, 1), LastKept(s, Len(s)))

\* str.startswith(p)
StartsWith(s, p) == Len(s) >= Len(p) /\ SubSeq(s, 1, Len(p)) = p

\* w in s
Contains(s, w) ==
    \E i \in 1..(Len(s) - Len(w) + 1) : SubSeq(s, i, i + Len(w) - 1) = w

\* s[:n]
Take(s, n) == SubSeq(s, 1, IF n < Len(s) THEN n ELSE Len(s))

RECURSIVE Digits(_)
\* str(n) for a natural number n
Digits(n) ==
    IF n < 10 THEN <<DigitChars[n + 1]>>
    ELSE Digits(n \div 10) \o <<DigitChars[(n % 10) + 1]>>

(***************************************************************************)
(* Python values: t is the type, s the text of a str, n the value of an    *)
(* int, d the items of a list (a sequence) or of a dict (a function from   *)
(* its keys).  "bytes" stands for a value json.dumps rejects.              *)
(***************************************************************************)

PyStr(s) == [t |-> "str", s |-> s, n |-> 0, d |-> <<>>]

PyInt(n) == [t |-> "int", s |-> <<>>, n |-> n, d |-> <<>>]

PyNone == [t |-> "none", s |-> <<>>, n |-> 0, d |-> <<>>]

PyBytes == [t |-> "bytes", s |-> <<>>, n |-> 0, d |-> <<>>]

PyList(items) == [t |-> "list", s |-> <<>>, n |-> 0, d |-> items]

PyDict(f) == [t |-> "dict", s |-> <<>>, n |-> 0, d |-> f]

\* {'url': url, 'text': text}
Link(url, text) == PyDict([url |-> PyStr(url), text |-> PyStr(text)])

\* {'answer': answer, 'links': links}
Payload(answer, links) == PyDict([answer |-> PyStr(answer), links |-> PyList(links)])

RECURSIVE JoinWith(_, _)
\* sep.join(parts)
JoinWith(parts, sep) ==
    IF parts = <<>> THEN <<>>
    ELSE IF Len(parts) = 1 THEN parts[1]
    ELSE parts[1] \o sep \o JoinWith(Tail(parts), sep)

RECURSIVE Repr(_)
\* repr(v), for str without quotes or escapes, int >= 0, None, bytes and lists
Repr(v) ==
    CASE v.t = "str"   -> <<"'">> \o v.s \o <<"'">>
      [] v.t = "int"   -> Digits(v.n)
      [] v.t = "none"  -> <<"N","o","n","e">>
      [] v.t = "bytes" -> <<"b","'","'">>
      [] v.t = "list"  -> <<"[">> \o JoinWith(AsList([i \in 1..Len(v.d) |-> Repr(v.d[i])]), <<",", " ">>) \o <<"]">>

\* str(v)
Str(v) == IF v.t = "str" THEN v.s ELSE Repr(v)

\* json.dumps never raises.
JsonOk_Always(v) == TRUE

RECURSIVE JsonOk(_)
\* json.dumps(v) returns (does not raise TypeError)
JsonOk(v) ==
    CASE v.t \in {"str", "int", "none"} -> TRUE
      [] v.t = "bytes" -> FALSE
      [] v.t = "list"  -> \A i \in 1..Len(v.d) : JsonOk(v.d[i])
      [] v.t = "dict"  -> \A k \in DOMAIN v.d : JsonOk(v.d[k])

(***************************************************************************)
(* String literals of the source                                           *)
(***************************************************************************)

\* views.py:29, utils.py:59, ai_service.py:215
ForumUrl ==
    <<"h","t","t","p","s",":","/","/","d","i","s","c","o","u","r","s","e",".","o","n","l","i",
      "n","e","d","e","g","r","e","e",".","i","i","t","m",".","a","c",".","i","n","/">>

\* views.py:29, utils.py:60, ai_service.py:216
ForumText ==
    <<"T","D","S"," ","C","o","u","r","s","e"," ","F","o","r","u","m">>

\* utils.py:17
MsgNoProperResponse ==
    <<"U","n","a","b","l","e"," ","t","o"," ","g","e","n","e","r","a","t","e"," ","a"," ","p",
      "r","o","p","e","r"," ","r","e","s","p","o","n","s","e",".">>

\* utils.py:25
MsgNoAnswerProvided ==
    <<"N","o"," ","a","n","s","w","e","r"," ","p","r","o","v","i","d","e","d",".">>

\* utils.py:30
MsgNoMeaningfulAnswer ==
    <<"U","n","a","b","l","e"," ","t","o"," ","p","r","o","v","i","d","e"," ","a"," ","m","e",
      "a","n","i","n","g","f","u","l"," ","a","n","s","w","e","r",".">>

\* utils.py:34
Ellipsis ==
    <<".",".",".">>

\* utils.py:50
HttpPrefix ==
    <<"h","t","t","p">>

\* utils.py:73, views.py:105
MsgValidationFailed ==
    <<"R","e","s","p","o","n","s","e"," ","v","a","l","i","d","a","t","i","o","n"," ","f","a",
      "i","l","e","d","."," ","P","l","e","a","s","e"," ","t","r","y"," ","a","g","a","i","n",
      ".">>

\* ai_service.py:165, 180
MsgNoGenerated ==
    <<"I"," ","c","o","u","l","d","n","'","t"," ","g","e","n","e","r","a","t","e"," ","a"," ",
      "p","r","o","p","e","r"," ","r","e","s","p","o","n","s","e",".">>

\* ai_service.py:189, 351: the literal head of the forum-URL pattern
TopicUrlPrefix ==
    <<"h","t","t","p","s",":","/","/","d","i","s","c","o","u","r","s","e",".","o","n","l","i",
      "n","e","d","e","g","r","e","e",".","i","i","t","m",".","a","c",".","i","n","/","t","/">>

\* ai_service.py:199
DiscussionSuffix ==
    <<" ","D","i","s","c","u","s","s","i","o","n">>

\* ai_service.py:201, 356
RelatedDiscussion ==
    <<"R","e","l","a","t","e","d"," ","D","i","s","c","u","s","s","i","o","n"," ">>

\* ai_service.py:208-211
AssignmentLink ==
    [
      words |->
        <<
          <<"a","s","s","i","g","n","m","e","n","t">>,
          <<"h","o","m","e","w","o","r","k">>,
          <<"s","u","b","m","i","t">>
        >>,
      url |->
        <<"h","t","t","p","s",":","/","/","d","i","s","c","o","u","r","s","e",".","o","n","l","i",
          "n","e","d","e","g","r","e","e",".","i","i","t","m",".","a","c",".","i","n","/","c","/",
          "d","e","g","r","e","e","-","p","r","o","g","r","a","m","/","t","o","o","l","s","-","i",
          "n","-","d","a","t","a","-","s","c","i","e","n","c","e","/">>,
      text |->
        <<"T","D","S"," ","A","s","s","i","g","n","m","e","n","t"," ","H","e","l","p">>
    ]

\* ai_service.py:230-232
CatAi ==
    [
      words |->
        <<
          <<"g","p","t">>,
          <<"o","p","e","n","a","i">>,
          <<"a","p","i">>,
          <<"m","o","d","e","l">>,
          <<"a","i">>
        >>,
      answer |->
        <<"F","o","r"," ","T","D","S"," ","a","s","s","i","g","n","m","e","n","t","s"," ","r","e",
          "q","u","i","r","i","n","g"," ","s","p","e","c","i","f","i","c"," ","A","I"," ","m","o",
          "d","e","l","s"," ","l","i","k","e"," ","G","P","T","-","3",".","5","-","t","u","r","b",
          "o",","," ","u","s","e"," ","t","h","e"," ","O","p","e","n","A","I"," ","A","P","I"," ",
          "d","i","r","e","c","t","l","y"," ","a","s"," ","s","p","e","c","i","f","i","e","d"," ",
          "i","n"," ","t","h","e"," ","a","s","s","i","g","n","m","e","n","t"," ","r","e","q","u",
          "i","r","e","m","e","n","t","s","."," ","T","h","e"," ","a","s","s","i","g","n","m","e",
          "n","t"," ","m","a","y"," ","s","p","e","c","i","f","y"," ","a"," ","p","a","r","t","i",
          "c","u","l","a","r"," ","m","o","d","e","l"," ","v","e","r","s","i","o","n"," ","f","o",
          "r"," ","c","o","n","s","i","s","t","e","n","c","y"," ","i","n"," ","g","r","a","d","i",
          "n","g",".">>,
      text |->
        <<"A","I"," ","M","o","d","e","l"," ","U","s","a","g","e"," ","H","e","l","p">>
    ]

\* ai_service.py:234-236
CatPython ==
    [
      words |->
        <<
          <<"p","y","t","h","o","n">>,
          <<"s","e","t","u","p">>,
          <<"i","n","s","t","a","l","l">>,
          <<"e","n","v","i","r","o","n","m","e","n","t">>,
          <<"p","i","p">>
        >>,
      answer |->
        <<"F","o","r"," ","P","y","t","h","o","n"," ","s","e","t","u","p"," ","i","n"," ","T","D",
          "S",":"," ","1",")"," ","I","n","s","t","a","l","l"," ","P","y","t","h","o","n"," ","3",
          ".","8","+",","," ","2",")"," ","C","r","e","a","t","e"," ","v","i","r","t","u","a","l",
          " ","e","n","v","i","r","o","n","m","e","n","t",":"," ","'","p","y","t","h","o","n"," ",
          "-","m"," ","v","e","n","v"," ","t","d","s","_","e","n","v","'",","," ","3",")"," ","A",
          "c","t","i","v","a","t","e",":"," ","'","s","o","u","r","c","e"," ","t","d","s","_","e",
          "n","v","/","b","i","n","/","a","c","t","i","v","a","t","e","'"," ","(","L","i","n","u",
          "x","/","M","a","c",")"," ","o","r"," ","'","t","d","s","_","e","n","v","\\","S","c","r",
          "i","p","t","s","\\","a","c","t","i","v","a","t","e","'"," ","(","W","i","n","d","o","w",
          "s",")",","," ","4",")"," ","I","n","s","t","a","l","l"," ","p","a","c","k","a","g","e",
          "s",":"," ","'","p","i","p"," ","i","n","s","t","a","l","l"," ","-","r"," ","r","e","q",
          "u","i","r","e","m","e","n","t","s",".","t","x","t","'",".">>,
      text |->
        <<"P","y","t","h","o","n"," ","S","e","t","u","p"," ","H","e","l","p">>
    ]

\* ai_service.py:238-240
CatAssignment ==
    [
      words |->
        <<
          <<"a","s","s","i","g","n","m","e","n","t">>,
          <<"s","u","b","m","i","t">>,
          <<"d","e","a","d","l","i","n","e">>,
          <<"h","o","m","e","w","o","r","k">>,
          <<"g","a">>
        >>,
      answer |->
        <<"F","o","r"," ","T","D","S"," ","a","s","s","i","g","n","m","e","n","t","s",":"," ","1",
          ")"," ","F","o","l","l","o","w"," ","t","h","e"," ","s","p","e","c","i","f","i","e","d",
          " ","f","o","r","m","a","t",","," ","2",")"," ","I","n","c","l","u","d","e"," ","p","r",
          "o","p","e","r"," ","d","o","c","u","m","e","n","t","a","t","i","o","n"," ","a","n","d",
          " ","c","o","m","m","e","n","t","s",","," ","3",")"," ","T","e","s","t"," ","y","o","u",
          "r"," ","c","o","d","e"," ","t","h","o","r","o","u","g","h","l","y",","," ","4",")"," ",
          "S","u","b","m","i","t"," ","t","h","r","o","u","g","h"," ","t","h","e"," ","d","e","s",
          "i","g","n","a","t","e","d"," ","p","l","a","t","f","o","r","m",","," ","5",")"," ","C",
          "h","e","c","k"," ","d","i","s","c","o","u","r","s","e"," ","f","o","r"," ","a","s","s",
          "i","g","n","m","e","n","t","-","s","p","e","c","i","f","i","c"," ","c","l","a","r","i",
          "f","i","c","a","t","i","o","n","s"," ","a","n","d"," ","d","e","a","d","l","i","n","e",
          "s",".">>,
      text |->
        <<"A","s","s","i","g","n","m","e","n","t"," ","G","u","i","d","e","l","i","n","e","s">>
    ]

\* ai_service.py:242-244
CatGit ==
    [
      words |->
        <<
          <<"g","i","t">>,
          <<"v","e","r","s","i","o","n">>,
          <<"c","o","n","t","r","o","l">>,
          <<"g","i","t","h","u","b">>,
          <<"c","o","m","m","i","t">>
        >>,
      answer |->
        <<"F","o","r"," ","G","i","t"," ","i","n"," ","T","D","S",":"," ","1",")"," ","I","n","i",
          "t","i","a","l","i","z","e",":"," ","'","g","i","t"," ","i","n","i","t","'",","," ","2",
          ")"," ","A","d","d"," ","f","i","l","e","s",":"," ","'","g","i","t"," ","a","d","d"," ",
          ".","'",","," ","3",")"," ","C","o","m","m","i","t",":"," ","'","g","i","t"," ","c","o",
          "m","m","i","t"," ","-","m"," ","\"","m","e","a","n","i","n","g","f","u","l"," ","m","e",
          "s","s","a","g","e","\"","'",","," ","4",")"," ","P","u","s","h"," ","t","o"," ","G","i",
          "t","H","u","b",":"," ","'","g","i","t"," ","p","u","s","h"," ","o","r","i","g","i","n",
          " ","m","a","i","n","'","."," ","U","s","e"," ","v","e","r","s","i","o","n"," ","c","o",
          "n","t","r","o","l"," ","f","o","r"," ","a","l","l"," ","a","s","s","i","g","n","m","e",
          "n","t","s",".">>,
      text |->
        <<"G","i","t"," ","V","e","r","s","i","o","n"," ","C","o","n","t","r","o","l">>
    ]

\* ai_service.py:246-248
CatDebug ==
    [
      words |->
        <<
          <<"e","r","r","o","r">>,
          <<"d","e","b","u","g">>,
          <<"f","i","x">>,
          <<"p","r","o","b","l","e","m">>,
          <<"i","s","s","u","e">>
        >>,
      answer |->
        <<"F","o","r"," ","d","e","b","u","g","g","i","n","g"," ","i","n"," ","T","D","S",":"," ",
          "1",")"," ","R","e","a","d"," ","e","r","r","o","r"," ","m","e","s","s","a","g","e","s",
          " ","c","a","r","e","f","u","l","l","y",","," ","2",")"," ","C","h","e","c","k"," ","y",
          "o","u","r"," ","c","o","d","e"," ","s","y","n","t","a","x"," ","a","n","d"," ","l","o",
          "g","i","c",","," ","3",")"," ","U","s","e"," ","p","r","i","n","t"," ","s","t","a","t",
          "e","m","e","n","t","s"," ","f","o","r"," ","d","e","b","u","g","g","i","n","g",","," ",
          "4",")"," ","S","e","a","r","c","h"," ","d","i","s","c","o","u","r","s","e"," ","f","o",
          "r"," ","s","i","m","i","l","a","r"," ","i","s","s","u","e","s",","," ","5",")"," ","S",
          "h","a","r","e"," ","y","o","u","r"," ","e","r","r","o","r"," ","o","n"," ","t","h","e",
          " ","f","o","r","u","m"," ","f","o","r"," ","h","e","l","p",".">>,
      text |->
        <<"D","e","b","u","g","g","i","n","g"," ","H","e","l","p">>
    ]

\* ai_service.py:251
CatAnswerGeneric ==
    <<"I","'","m"," ","c","u","r","r","e","n","t","l","y"," ","e","x","p","e","r","i","e","n",
      "c","i","n","g"," ","h","i","g","h"," ","d","e","m","a","n","d","."," ","P","l","e","a",
      "s","e"," ","c","h","e","c","k"," ","t","h","e"," ","T","D","S"," ","c","o","u","r","s",
      "e"," ","m","a","t","e","r","i","a","l","s"," ","o","n"," ","t","h","e"," ","l","e","a",
      "r","n","i","n","g"," ","p","l","a","t","f","o","r","m"," ","o","r"," ","p","o","s","t",
      " ","y","o","u","r"," ","q","u","e","s","t","i","o","n"," ","o","n"," ","t","h","e"," ",
      "d","i","s","c","o","u","r","s","e"," ","f","o","r","u","m"," ","w","h","e","r","e"," ",
      "T","A","s"," ","a","n","d"," ","f","e","l","l","o","w"," ","s","t","u","d","e","n","t",
      "s"," ","c","a","n"," ","p","r","o","v","i","d","e"," ","d","e","t","a","i","l","e","d",
      " ","a","s","s","i","s","t","a","n","c","e",".">>

\* ai_service.py:297
FallbackPhrase ==
    <<"c","u","r","r","e","n","t","l","y"," ","u","n","a","b","l","e"," ","t","o"," ","p","r",
      "o","c","e","s","s">>

\* ai_service.py:325
BasedOnPrefix ==
    <<"B","a","s","e","d"," ","o","n"," ","c","o","u","r","s","e"," ","m","a","t","e","r","i",
      "a","l","s",":"," ">>

\* ai_service.py:325, 172, 177
DotSpace ==
    <<"."," ">>

\* ai_service.py:328-329
CtxAi ==
    [
      words |->
        <<
          <<"g","p","t">>,
          <<"o","p","e","n","a","i">>,
          <<"a","p","i">>,
          <<"m","o","d","e","l">>
        >>,
      answer |->
        <<"F","o","r"," ","A","I"," ","m","o","d","e","l"," ","q","u","e","s","t","i","o","n","s",
          " ","i","n"," ","T","D","S",":"," ","U","s","e"," ","t","h","e"," ","s","p","e","c","i",
          "f","i","c"," ","m","o","d","e","l"," ","m","e","n","t","i","o","n","e","d"," ","i","n",
          " ","t","h","e"," ","a","s","s","i","g","n","m","e","n","t"," ","(","l","i","k","e"," ",
          "g","p","t","-","3",".","5","-","t","u","r","b","o","-","0","1","2","5",")"," ","t","h",
          "r","o","u","g","h"," ","t","h","e"," ","O","p","e","n","A","I"," ","A","P","I"," ","d",
          "i","r","e","c","t","l","y",","," ","e","v","e","n"," ","i","f"," ","p","r","o","x","i",
          "e","s"," ","s","u","p","p","o","r","t"," ","d","i","f","f","e","r","e","n","t"," ","m",
          "o","d","e","l","s",".">>
    ]

\* ai_service.py:331-332
CtxPython ==
    [
      words |->
        <<
          <<"p","y","t","h","o","n">>,
          <<"s","e","t","u","p">>,
          <<"e","n","v","i","r","o","n","m","e","n","t">>
        >>,
      answer |->
        <<"F","o","r"," ","P","y","t","h","o","n"," ","i","n"," ","T","D","S",":"," ","I","n","s",
          "t","a","l","l"," ","P","y","t","h","o","n"," ","3",".","8","+",","," ","c","r","e","a",
          "t","e"," ","v","i","r","t","u","a","l"," ","e","n","v","i","r","o","n","m","e","n","t",
          " ","w","i","t","h"," ","'","p","y","t","h","o","n"," ","-","m"," ","v","e","n","v"," ",
          "t","d","s","_","e","n","v","'",","," ","a","c","t","i","v","a","t","e"," ","i","t",",",
          " ","t","h","e","n"," ","i","n","s","t","a","l","l"," ","r","e","q","u","i","r","e","d",
          " ","p","a","c","k","a","g","e","s"," ","w","i","t","h"," ","p","i","p",".">>
    ]

\* ai_service.py:334-335
CtxAssignment ==
    [
      words |->
        <<
          <<"a","s","s","i","g","n","m","e","n","t">>,
          <<"s","u","b","m","i","t">>,
          <<"h","o","m","e","w","o","r","k">>
        >>,
      answer |->
        <<"F","o","r"," ","T","D","S"," ","a","s","s","i","g","n","m","e","n","t","s",":"," ","F",
          "o","l","l","o","w"," ","t","h","e"," ","s","u","b","m","i","s","s","i","o","n"," ","f",
          "o","r","m","a","t",","," ","i","n","c","l","u","d","e"," ","d","o","c","u","m","e","n",
          "t","a","t","i","o","n",","," ","t","e","s","t"," ","t","h","o","r","o","u","g","h","l",
          "y",","," ","a","n","d"," ","c","h","e","c","k"," ","d","i","s","c","o","u","r","s","e",
          " ","f","o","r"," ","s","p","e","c","i","f","i","c"," ","r","e","q","u","i","r","e","m",
          "e","n","t","s"," ","a","n","d"," ","d","e","a","d","l","i","n","e","s",".">>
    ]

\* ai_service.py:338
CtxAnswerGeneric ==
    <<"F","o","r"," ","d","e","t","a","i","l","e","d"," ","h","e","l","p"," ","w","i","t","h",
      " ","y","o","u","r"," ","T","D","S"," ","q","u","e","s","t","i","o","n",","," ","p","l",
      "e","a","s","e"," ","p","o","s","t"," ","o","n"," ","t","h","e"," ","d","i","s","c","o",
      "u","r","s","e"," ","f","o","r","u","m"," ","w","h","e","r","e"," ","T","A","s"," ","a",
      "n","d"," ","s","t","u","d","e","n","t","s"," ","c","a","n"," ","p","r","o","v","i","d",
      "e"," ","c","o","m","p","r","e","h","e","n","s","i","v","e"," ","a","s","s","i","s","t",
      "a","n","c","e",".">>

\* ai_service.py:134
QuotaWords ==
    <<
      <<"4","2","9">>,
      <<"q","u","o","t","a">>,
      <<"e","x","c","e","e","d","e","d">>
    >>

\* views.py:28, 38, 44, 55, 66, 95, 125: the answers of the error responses
ApiMessages ==
    [
      invalid_json |->
        <<"I","n","v","a","l","i","d"," ","J","S","O","N"," ","f","o","r","m","a","t"," ","i","n",
          " ","r","e","q","u","e","s","t","."," ","P","l","e","a","s","e"," ","c","h","e","c","k",
          " ","y","o","u","r"," ","r","e","q","u","e","s","t"," ","s","t","r","u","c","t","u","r",
          "e",".">>,
      no_question |->
        <<"P","l","e","a","s","e"," ","p","r","o","v","i","d","e"," ","a"," ","q","u","e","s","t",
          "i","o","n"," ","f","o","r"," ","t","h","e"," ","T","D","S"," ","V","i","r","t","u","a",
          "l"," ","T","A",".">>,
      too_long |->
        <<"Q","u","e","s","t","i","o","n"," ","i","s"," ","t","o","o"," ","l","o","n","g","."," ",
          "P","l","e","a","s","e"," ","k","e","e","p"," ","i","t"," ","u","n","d","e","r"," ","1",
          "0","0","0"," ","c","h","a","r","a","c","t","e","r","s",".">>,
      too_many_requests |->
        <<"T","o","o"," ","m","a","n","y"," ","r","e","q","u","e","s","t","s","."," ","P","l","e",
          "a","s","e"," ","w","a","i","t"," ","a"," ","m","o","m","e","n","t"," ","b","e","f","o",
          "r","e"," ","a","s","k","i","n","g"," ","a","n","o","t","h","e","r"," ","q","u","e","s",
          "t","i","o","n",".">>,
      init_failed |->
        <<"U","n","a","b","l","e"," ","t","o"," ","i","n","i","t","i","a","l","i","z","e"," ","T",
          "D","S"," ","V","i","r","t","u","a","l"," ","T","A"," ","s","e","r","v","i","c","e","s",
          "."," ","P","l","e","a","s","e"," ","t","r","y"," ","a","g","a","i","n"," ","l","a","t",
          "e","r",".">>,
      generation_failed |->
        <<"U","n","a","b","l","e"," ","t","o"," ","p","r","o","c","e","s","s"," ","y","o","u","r",
          " ","q","u","e","s","t","i","o","n"," ","a","t"," ","t","h","e"," ","m","o","m","e","n",
          "t","."," ","P","l","e","a","s","e"," ","t","r","y"," ","a","g","a","i","n"," ","o","r",
          " ","p","o","s","t"," ","o","n"," ","t","h","e"," ","d","i","s","c","o","u","r","s","e",
          " ","f","o","r","u","m",".">>,
      unexpected |->
        <<"A","n"," ","u","n","e","x","p","e","c","t","e","d"," ","e","r","r","o","r"," ","o","c",
          "c","u","r","r","e","d","."," ","P","l","e","a","s","e"," ","t","r","y"," ","a","g","a",
          "i","n"," ","o","r"," ","c","o","n","t","a","c","t"," ","s","u","p","p","o","r","t"," ",
          "t","h","r","o","u","g","h"," ","t","h","e"," ","d","i","s","c","o","u","r","s","e"," ",
          "f","o","r","u","m",".">>
    ]

\* data_scraper.py:172
MsgNoContent ==
    <<"N","o"," ","s","p","e","c","i","f","i","c"," ","c","o","u","r","s","e"," ","c","o","n",
      "t","e","n","t"," ","f","o","u","n","d"," ","f","o","r"," ","t","h","i","s"," ","q","u",
      "e","s","t","i","o","n",".">>

(***************************************************************************)
(* Response Validator: validate_response_structure                         *)
(***************************************************************************)

\* views.py:289 (utils.py:33)
AnswerLimit == 2000

\* views.py:290 (utils.py:34)
AnswerKeep == 1997

\* A value not yet assigned.
Unset == [t |-> "unset", s |-> <<>>, n |-> 0, d |-> <<>>]

\* An object whose __str__ raises (and which json.dumps rejects).
PyRaiser == [t |-> "raiser", s |-> <<>>, n |-> 0, d |-> <<>>]

\* The link every handler falls back to.
ForumLink == Link(ForumUrl, ForumText)

\* views.py:324-327: the payload of the except branch.
SafeDefault == Payload(MsgValidationFailed, <<ForumLink>>)

\* CleanAnswer without the cut at 2000 characters.
CleanAnswer_Untruncated(answer) ==
    LET a1 == IF answer.t # "str"
              THEN (IF answer.t # "none" THEN Str(answer) ELSE MsgNoAnswerProvided)
              ELSE answer.s
        a2 == Strip(a1)
    IN  IF a2 = <<>> THEN MsgNoMeaningfulAnswer ELSE a2

\* CleanAnswer cutting at 2000 characters without the ellipsis.
CleanAnswer_NoEllipsis(answer) ==
    LET a1 == IF answer.t # "str"
              THEN (IF answer.t # "none" THEN Str(answer) ELSE MsgNoAnswerProvided)
              ELSE answer.s
        a2 == Strip(a1)
        a3 == IF a2 = <<>> THEN MsgNoMeaningfulAnswer ELSE a2
    IN  Take(a3, AnswerLimit)

\* views.py:280-290: the answer text written back into the response.
CleanAnswer(answer) ==
    LET a1 == IF answer.t # "str"
              THEN (IF answer.t # "none" THEN Str(answer) ELSE MsgNoAnswerProvided)
              ELSE answer.s
        a2 == Strip(a1)
        a3 == IF a2 = <<>> THEN MsgNoMeaningfulAnswer ELSE a2
    IN  IF Len(a3) > AnswerLimit THEN Take(a3, AnswerKeep) \o Ellipsis ELSE a3

\* views.py:301: isinstance(link, dict) and 'url' in link and 'text' in link
IsLinkDict(link) ==
    link.t = "dict" /\ "url" \in DOMAIN link.d /\ "text" \in DOMAIN link.d

RECURSIVE CleanLinks_AnyScheme(_)
\* CleanLinks without the check that the url starts with "http".
CleanLinks_AnyScheme(links) ==
    IF links = <<>> THEN <<>>
    ELSE LET link == Head(links)
             rest == CleanLinks_AnyScheme(Tail(links))
         IN  IF IsLinkDict(link)
             THEN LET url  == Strip(Str(link.d.url))
                      text == Strip(Str(link.d.text))
                  IN  IF url # <<>> /\ text # <<>>
                      THEN <<Link(url, text)>> \o rest
                      ELSE rest
             ELSE rest

RECURSIVE CleanLinks(_)
\* views.py:299-306: the loop that builds validated_links.
CleanLinks(links) ==
    IF links = <<>> THEN <<>>
    ELSE LET link == Head(links)
             rest == CleanLinks(Tail(links))
         IN  IF IsLinkDict(link)
             THEN LET url  == Strip(Str(link.d.url))
                      text == Strip(Str(link.d.text))
                  IN  IF url # <<>> /\ text # <<>> /\ StartsWith(url, HttpPrefix)
                      THEN <<Link(url, text)>> \o rest
                      ELSE rest
             ELSE rest

\* str(link['url']) or str(link['text']) raises for some entry of the loop.
LinkStrRaises(links) ==
    \E i \in 1..Len(links) :
        /\ IsLinkDict(links[i])
        /\ (links[i].d.url.t = "raiser" \/ links[i].d.text.t = "raiser")

\* views.py:266-327 (the copy in utils.py:9-75 has the same statements).
validate_response_structure(response) ==
    IF response.t # "dict" THEN SafeDefault
    ELSE
      LET d0 == response.d
          d1 == IF "answer" \in DOMAIN d0 THEN d0
                ELSE d0 @@ ("answer" :> PyStr(MsgNoProperResponse))
          d2 == IF "links" \in DOMAIN d1 THEN d1
                ELSE d1 @@ ("links" :> PyList(<<>>))
          links == IF d2["links"].t = "list" THEN d2["links"].d ELSE <<>>
      IN  IF d2["answer"].t = "raiser" \/ LinkStrRaises(links) THEN SafeDefault
          ELSE
            LET vlinks == CleanLinks(links)
                d3 == [d2 EXCEPT
                         !["answer"] = PyStr(CleanAnswer(d2["answer"])),
                         !["links"] = PyList(IF vlinks = <<>> THEN <<ForumLink>> ELSE vlinks)]
            IN  IF JsonOk(PyDict(d3)) THEN PyDict(d3) ELSE SafeDefault

(***************************************************************************)
(* Inputs of the validator                                                 *)
(***************************************************************************)

\* How far past the limit the long answers of the inputs go.
MaxOver == 2

SampleUrl == <<"h","t","t","p",":","/","/","a",".","b","/","c">>

SampleText == <<"D","o","c","s">>

\* Values stored under 'answer'.
AnswerValues ==
    {PyNone, PyInt(42), PyList(<<>>), PyList(<<PyStr(SampleText)>>), PyRaiser,
     PyStr(<<>>), PyStr(<<" ", "\n">>), PyStr(SampleText),
     PyStr(<<" ">> \o SampleText \o <<"\t">>)}
    \cup {PyStr(Rep("x", n)) : n \in (AnswerKeep - 1)..(AnswerLimit + MaxOver)}
    \cup {PyStr(<<" ">> \o Rep("x", AnswerLimit + 1) \o <<" ", " ">>),
          PyStr(Rep("x", AnswerLimit + 500))}

\* Entries of a 'links' list.
LinkItems ==
    {Link(SampleUrl, SampleText),
     Link(<<" ">> \o ForumUrl \o <<" ">>, <<" ">> \o ForumText),
     Link(<<"f","t","p",":","/","/","a">>, SampleText),
     Link(<<>>, SampleText),
     Link(SampleUrl, <<" ", " ">>),
     PyDict([url |-> PyStr(SampleUrl)]),
     PyDict([text |-> PyStr(SampleText)]),
     PyDict([url |-> PyInt(7), text |-> PyStr(SampleText)]),
     PyDict([url |-> PyStr(SampleUrl), text |-> PyNone]),
     PyDict([url |-> PyRaiser, text |-> PyStr(SampleText)]),
     PyStr(SampleUrl),
     PyNone}

\* Values stored under 'links'.
LinksValues ==
    {PyNone, PyStr(SampleUrl), PyList(<<>>)}
    \cup {PyList(<<a>>) : a \in LinkItems}
    \cup {PyList(<<a, b>>) : a \in LinkItems, b \in {Link(SampleUrl, SampleText), PyNone}}

\* The dicts handed to the validator: 'answer' and 'links' present or not,
\* and possibly one more key whose value json.dumps accepts or rejects.
\* Every answer value meets a few links values and every links value a few
\* answer values.
DictInputs ==
    LET withAnswer == {[answer |-> a] : a \in AnswerValues} \cup {<<>>}
        withLinks  == {[links |-> l] : l \in LinksValues} \cup {<<>>}
        withExtra  == {[extra |-> e] : e \in {PyInt(1), PyBytes}} \cup {<<>>}
        fewAnswers == {[answer |-> a] : a \in {PyNone, PyStr(SampleText)}} \cup {<<>>}
        fewLinks   == {[links |-> PyList(<<a>>)] :
                          a \in {Link(SampleUrl, SampleText), Link(<<>>, SampleText)}}
                      \cup {[links |-> PyList(<<PyNone, Link(<<>>, SampleText)>>)], <<>>}
    IN  {PyDict(a @@ l @@ e) : a \in withAnswer, l \in fewLinks, e \in withExtra}
        \cup {PyDict(a @@ l @@ e) : a \in fewAnswers, l \in withLinks, e \in withExtra}

ValidateInputs == DictInputs \cup {PyNone, PyStr(SampleText), PyList(<<>>)}

(***************************************************************************)
(* Text helpers used by the AI service                                     *)
(***************************************************************************)

RECURSIVE SortedIn(_, _, _)
\* the members of the set of indices S within lo..hi, in increasing order
SortedIn(S, lo, hi) ==
    IF lo > hi THEN <<>>
    ELSE IF lo = hi THEN (IF lo \in S THEN <<lo>> ELSE <<>>)
    ELSE LET mid == (lo + hi) \div 2
         IN  SortedIn(S, lo, mid) \o SortedIn(S, mid + 1, hi)

\* any(word in text for word in words)
AnyWordIn(words, text) == \E i \in 1..Len(words) : Contains(text, words[i])

\* str.split(sep) for a separator that cannot overlap itself
Split(s, sep) ==
    LET n    == Len(sep)
        at   == {i \in 1..(Len(s) - n + 1) : SubSeq(s, i, i + n - 1) = sep}
        cuts == SortedIn(at, 1, Len(s))
        k    == Len(cuts)
    IN  AsList([j \in 1..(k + 1) |->
            SubSeq(s, IF j = 1 THEN 1 ELSE cuts[j - 1] + n,
                      IF j = k + 1 THEN Len(s) ELSE cuts[j] - 1)])

RECURSIVE RunEnd(_, _, _)
\* index of the last character of the run of characters outside `stop`
\* (or, with inside = TRUE, inside it) that starts at i; i - 1 if none
RunEnd(s, i, stop) ==
    IF i > Len(s) \/ s[i] \in stop THEN i - 1 ELSE RunEnd(s, i + 1, stop)

\* set(str.split()): the words separated by white space
WordSet(s) ==
    {SubSeq(s, i, RunEnd(s, i, Whitespace)) :
        i \in {j \in 1..Len(s) : s[j] \notin Whitespace
                                  /\ (j = 1 \/ s[j - 1] \in Whitespace)}}

Digit == {DigitChars[i] : i \in 1..Len(DigitChars)}

RECURSIVE DigitsEnd(_, _)
\* index of the last digit of the run of digits that starts at i; i - 1 if none
DigitsEnd(s, i) ==
    IF i > Len(s) \/ s[i] \notin Digit THEN i - 1 ELSE DigitsEnd(s, i + 1)

\* re: https://discourse\.onlinedegree\.iitm\.ac\.in/t/[^/\s]+/\d+(?:/\d+)?
\* The index of the last character of the match that starts at i, 0 if none.
TopicUrlEnd(s, i) ==
    LET p    == Len(TopicUrlPrefix)
        slug == RunEnd(s, i + p, Whitespace \cup {"/"})
        num  == DigitsEnd(s, slug + 2)
        sub  == DigitsEnd(s, num + 2)
    IN  IF ~(i + p - 1 <= Len(s) /\ SubSeq(s, i, i + p - 1) = TopicUrlPrefix) THEN 0
        ELSE IF slug < i + p THEN 0
        ELSE IF ~(slug + 1 <= Len(s) /\ s[slug + 1] = "/") THEN 0
        ELSE IF num < slug + 2 THEN 0
        ELSE IF num + 1 <= Len(s) /\ s[num + 1] = "/" /\ sub >= num + 2 THEN sub
        ELSE num

\* re.findall(pattern, context): the matches from left to right.  No match
\* can start inside another one: the slug and the digits hold no "/".
FindTopicUrls(context) ==
    LET at     == {i \in 1..Len(context) : context[i] = "h" /\ TopicUrlEnd(context, i) > 0}
        starts == SortedIn(at, 1, Len(context))
    IN  AsList([j \in 1..Len(starts) |->
                   SubSeq(context, starts[j], TopicUrlEnd(context, starts[j]))])

(***************************************************************************)
(* Fallback Engine                                                         *)
(***************************************************************************)

\* _fallback_response with the buckets checked from the last to the first
fallback_response_LastWins(question) ==
    LET question_lower == Lower(question)
        pick ==
            IF AnyWordIn(CatDebug.words, question_lower) THEN <<CatDebug.answer, CatDebug.text>>
            ELSE IF AnyWordIn(CatGit.words, question_lower) THEN <<CatGit.answer, CatGit.text>>
            ELSE IF AnyWordIn(CatAssignment.words, question_lower)
                 THEN <<CatAssignment.answer, CatAssignment.text>>
            ELSE IF AnyWordIn(CatPython.words, question_lower)
                 THEN <<CatPython.answer, CatPython.text>>
            ELSE IF AnyWordIn(CatAi.words, question_lower) THEN <<CatAi.answer, CatAi.text>>
            ELSE <<CatAnswerGeneric, ForumText>>
    IN  Payload(pick[1], <<Link(ForumUrl, pick[2])>>)

\* ai_service.py:225-257  AIService._fallback_response
fallback_response(question) ==
    LET question_lower == Lower(question)
        pick ==
            IF AnyWordIn(CatAi.words, question_lower) THEN <<CatAi.answer, CatAi.text>>
            ELSE IF AnyWordIn(CatPython.words, question_lower)
                 THEN <<CatPython.answer, CatPython.text>>
            ELSE IF AnyWordIn(CatAssignment.words, question_lower)
                 THEN <<CatAssignment.answer, CatAssignment.text>>
            ELSE IF AnyWordIn(CatGit.words, question_lower) THEN <<CatGit.answer, CatGit.text>>
            ELSE IF AnyWordIn(CatDebug.words, question_lower)
                 THEN <<CatDebug.answer, CatDebug.text>>
            ELSE <<CatAnswerGeneric, ForumText>>
    IN  Payload(pick[1], <<Link(ForumUrl, pick[2])>>)

\* ai_service.py:345-365  MultiAIService._extract_links_from_context
extract_links_from_context(context) ==
    LET urls  == FindTopicUrls(context)
        links == AsList([i \in 1..(IF Len(urls) < 2 THEN Len(urls) ELSE 2) |->
                            Link(urls[i], RelatedDiscussion \o Digits(i))])
    IN  IF links = <<>> THEN <<ForumLink>> ELSE links

\* ai_service.py:311-325: the prefix mined from the context
ContextInfo(question_lower, context) ==
    IF Len(context) > 50
    THEN LET sentences == Split(context, <<".">>)
             question_words == WordSet(question_lower)
             first == Take(sentences, 10)
             \* line 320: some question word longer than 3 is in the sentence
             hit == {i \in 1..Len(first) :
                        \E w \in question_words :
                            Contains(Lower(first[i]), w) /\ Len(w) > 3}
             idx == SortedIn(hit, 1, Len(first))
             relevant_sentences == AsList([j \in 1..Len(idx) |-> Strip(first[idx[j]])])
         IN  IF relevant_sentences # <<>>
             THEN BasedOnPrefix \o JoinWith(Take(relevant_sentences, 2), DotSpace) \o DotSpace
             ELSE <<>>
    ELSE <<>>

\* ai_service.py:306-343  MultiAIService._intelligent_fallback
intelligent_fallback(question, context) ==
    LET question_lower == Lower(question)
        context_info == ContextInfo(question_lower, context)
        answer ==
            IF AnyWordIn(CtxAi.words, question_lower) THEN context_info \o CtxAi.answer
            ELSE IF AnyWordIn(CtxPython.words, question_lower)
                 THEN context_info \o CtxPython.answer
            ELSE IF AnyWordIn(CtxAssignment.words, question_lower)
                 THEN context_info \o CtxAssignment.answer
            ELSE context_info \o CtxAnswerGeneric
    IN  Payload(answer, extract_links_from_context(context))

(***************************************************************************)
(* Answer cleaning and the Link Extractor                                  *)
(***************************************************************************)

\* ai_service.py:171
CleanLimit == 1200

\* A room for sentences longer than the limit of line 171.
CleanKeep_Long == CleanLimit + 100

\* ai_service.py:175
CleanKeep == 1000

\* re.sub(r'\s+', ' ', s.strip())
CollapseSpaces(s) ==
    LET t    == Strip(s)
        keep == {i \in 1..Len(t) : t[i] \notin Whitespace \/ t[i - 1] \notin Whitespace}
        idx  == SortedIn(keep, 1, Len(t))
    IN  AsList([j \in 1..Len(idx) |-> IF t[idx[j]] \in Whitespace THEN " " ELSE t[idx[j]]])

RECURSIVE TruncateLoop(_, _, _)
\* ai_service.py:174-177: the loop over sentences, from sentence k on
TruncateLoop(sentences, k, truncated) ==
    IF k > Len(sentences) \/ Len(truncated) + Len(sentences[k]) > CleanKeep
    THEN truncated
    ELSE TruncateLoop(sentences, k + 1, truncated \o sentences[k] \o DotSpace)

\* ai_service.py:162-180  AIService._clean_answer_text (raw_text a str)
clean_answer_text(raw_text) ==
    IF raw_text = <<>> THEN MsgNoGenerated
    ELSE LET collapsed == CollapseSpaces(raw_text)
             cleaned == IF Len(collapsed) > CleanLimit
                        THEN Strip(TruncateLoop(Split(collapsed, DotSpace), 1, <<>>))
                        ELSE collapsed
         IN  IF cleaned # <<>> THEN cleaned ELSE MsgNoGenerated

UpperChar(c) ==
    IF \E i \in 1..Len(LowerChars) : LowerChars[i] = c
    THEN UpperChars[CHOOSE i \in 1..Len(LowerChars) : LowerChars[i] = c]
    ELSE c

IsLetter(c) == LowerChar(c) # c \/ UpperChar(c) # c

\* str.title()
Title(s) ==
    AsList([i \in 1..Len(s) |->
        IF i > 1 /\ IsLetter(s[i - 1]) THEN LowerChar(s[i]) ELSE UpperChar(s[i])])

\* str.replace('-', ' ')
HyphensToSpaces(s) == AsList([i \in 1..Len(s) |-> IF s[i] = "-" THEN " " ELSE s[i]])

\* re.search(r'/t/([^/]+)/', url): group 1 of the first match, <<>> if none
TopicSegment(url) ==
    LET ok(i) == /\ SubSeq(url, i, i + 2) = <<"/", "t", "/">>
                 /\ RunEnd(url, i + 3, {"/"}) >= i + 3
                 /\ RunEnd(url, i + 3, {"/"}) < Len(url)
        at == {i \in 1..(Len(url) - 2) : ok(i)}
    IN  IF at = {} THEN <<>>
        ELSE LET i == SetMin(at) IN SubSeq(url, i + 3, RunEnd(url, i + 3, {"/"}))

\* The orders list(set(discourse_urls)) can have: every arrangement of the
\* distinct URLs (set iteration order depends on the process's hash seed).
UniqueOrders(context) ==
    LET urls == FindTopicUrls(context)
        S == {urls[i] : i \in 1..Len(urls)}
    IN  {o \in [1..Cardinality(S) -> S] : \A u \in S : \E i \in DOMAIN o : o[i] = u}

\* _extract_relevant_links without the [:2] of line 193
extract_relevant_links_Uncapped(context, question, unique_order) ==
    LET links == AsList([i \in 1..Len(unique_order) |->
                    LET topic == TopicSegment(unique_order[i])
                    IN  Link(unique_order[i],
                             IF topic # <<>>
                             THEN Title(HyphensToSpaces(topic)) \o DiscussionSuffix
                             ELSE RelatedDiscussion \o Digits(i))])
    IN  IF links # <<>> THEN links
        ELSE IF AnyWordIn(AssignmentLink.words, Lower(question))
             THEN <<Link(AssignmentLink.url, AssignmentLink.text)>>
             ELSE <<ForumLink>>

\* ai_service.py:182-223  AIService._extract_relevant_links, with
\* list(set(discourse_urls)) = unique_order
extract_relevant_links(context, question, unique_order) ==
    LET unique_urls == Take(unique_order, 2)
        links == AsList([i \in 1..Len(unique_urls) |->
                    LET topic == TopicSegment(unique_urls[i])
                    IN  Link(unique_urls[i],
                             IF topic # <<>>
                             THEN Title(HyphensToSpaces(topic)) \o DiscussionSuffix
                             ELSE RelatedDiscussion \o Digits(i))])
    IN  IF links # <<>> THEN links
        ELSE IF AnyWordIn(AssignmentLink.words, Lower(question))
             THEN <<Link(AssignmentLink.url, AssignmentLink.text)>>
             ELSE <<ForumLink>>

\* ai_service.py:143-160  AIService._process_ai_response
process_ai_response(ai_response, context, question, unique_order) ==
    Payload(clean_answer_text(ai_response),
            extract_relevant_links(context, question, unique_order))

(***************************************************************************)
(* Program constants                                                       *)
(***************************************************************************)

\* ai_service.py:266  self.min_delay
min_delay == 5

\* ai_service.py:268  self.daily_limit
daily_limit == 50

\* ai_service.py:111  max_retries
max_retries == 2

\* ai_service.py:139  time.sleep(1)
BackoffDelay == 1

\* views.py:42
QuestionLimit == 1000

(***************************************************************************)
(* Inputs: questions, contexts and what the generation endpoint does       *)
(***************************************************************************)

QuestionSubmit ==
    <<"H","o","w"," ","d","o"," ","I"," ","s","u","b","m","i","t"," ","t","h","e"," ","a","s",
      "s","i","g","n","m","e","n","t","?">>

QuestionHello ==
    <<"H","e","l","l","o"," ","t","h","e","r","e">>

\* data_scraper.py:234 applied to the post of data_scraper.py:124-133 (content shortened)
ContextPost ==
    <<"D","i","s","c","o","u","r","s","e"," ","P","o","s","t",":"," ","A","s","s","i","g","n",
      "m","e","n","t"," ","S","u","b","m","i","s","s","i","o","n"," ","F","o","r","m","a","t",
      "\n","U","R","L",":"," ","h","t","t","p","s",":","/","/","d","i","s","c","o","u","r","s",
      "e",".","o","n","l","i","n","e","d","e","g","r","e","e",".","i","i","t","m",".","a","c",
      ".","i","n","/","t","/","a","s","s","i","g","n","m","e","n","t","-","f","o","r","m","a",
      "t","/","1","5","5","6","5","4","\n","C","o","n","t","e","n","t",":"," ","P","r","o","p",
      "e","r"," ","a","s","s","i","g","n","m","e","n","t"," ","s","u","b","m","i","s","s","i",
      "o","n"," ","f","o","r","m","a","t",":"," ","1",")"," ","C","r","e","a","t","e"," ","a",
      " ","m","a","i","n",".","p","y"," ","f","i","l","e"," ","w","i","t","h"," ","y","o","u",
      "r"," ","s","o","l","u","t","i","o","n",","," ","2",")"," ","I","n","c","l","u","d","e",
      " ","r","e","q","u","i","r","e","m","e","n","t","s",".","t","x","t"," ","w","i","t","h",
      " ","d","e","p","e","n","d","e","n","c","i","e","s","\n","T","a","g","s",":"," ","a","s",
      "s","i","g","n","m","e","n","t",","," ","s","u","b","m","i","s","s","i","o","n",","," ",
      "f","o","r","m","a","t",","," ","r","e","q","u","i","r","e","m","e","n","t","s">>

TextShort ==
    <<"U","s","e"," ","g","i","t"," ","a","d","d",","," ","t","h","e","n"," ","g","i","t"," ",
      "c","o","m","m","i","t","."," "," ">>

TextUnable ==
    <<"I"," ","a","m"," ","c","u","r","r","e","n","t","l","y"," ","u","n","a","b","l","e"," ",
      "t","o"," ","p","r","o","c","e","s","s"," ","t","h","i","s"," ","r","e","q","u","e","s",
      "t",".">>

TextBlank ==
    <<" ","\n"," ">>

Questions == {QuestionSubmit, QuestionHello}

\* What search_relevant_content hands over: a rendered forum post, or the
\* "nothing found" sentence of data_scraper.py:172.
Contexts == {ContextPost, MsgNoContent}

\* The texts response.text can hold; <<>> is an empty or missing text.
EndpointTexts == {<<>>, TextBlank, TextShort, TextUnable}

\* The texts str(e) of an exception raised by generate_content can hold.
EndpointErrors ==
    {
    <<"5","0","3"," ","S","e","r","v","i","c","e"," ","U","n","a","v","a","i","l","a","b","l",
      "e">>,
    <<"4","2","9"," ","T","o","o"," ","M","a","n","y"," ","R","e","q","u","e","s","t","s">>,
    <<"Q","u","o","t","a"," ","e","x","c","e","e","d","e","d"," ","f","o","r"," ","q","u","o",
      "t","a"," ","m","e","t","r","i","c">>,
    <<"5","0","4"," ","D","e","a","d","l","i","n","e"," ","E","x","c","e","e","d","e","d">>
    }

\* One call of model.generate_content: it returns a response or raises.
EndpointOutcomes ==
    {[kind |-> "text", text |-> t] : t \in EndpointTexts}
    \cup {[kind |-> "error", text |-> m] : m \in EndpointErrors}

\* ai_service.py:130-134: the error text names a quota error
IsQuotaError(message) == AnyWordIn(QuotaWords, Lower(message))

\* ai_service.py:296-297: the Generation Client's payload is returned as it is
IsUsable(response) ==
    /\ response.d["answer"].s # <<>>
    /\ ~Contains(Lower(response.d["answer"].s), FallbackPhrase)

\* No error ends the loop.
StopsRetries_Never(message) == FALSE

\* ai_service.py:133-136: a quota error ends the loop
StopsRetries(message) == IsQuotaError(message)

\* ai_service.py:82-85: what AIService.generate_answer returns for ai_response
ClientPayload(text, q, c, unique_order) ==
    IF text.t = "str" /\ text.s # <<>>
    THEN process_ai_response(text.s, c, q, unique_order)
    ELSE fallback_response(q)

\* ai_service.py:292-304: what MultiAIService.generate_answer returns once
\* the Generation Client has come back with ai_response `text`
OrchestratorPayload(text, q, c, unique_order) ==
    IF IsUsable(ClientPayload(text, q, c, unique_order))
    THEN ClientPayload(text, q, c, unique_order)
    ELSE intelligent_fallback(q, c)

\* Fallback payloads produced on that way: one by AIService.generate_answer
\* when there is no text, one by line 304 when the payload is not usable.
FallbacksMade(text, q, c, unique_order) ==
    (IF text.t = "str" /\ text.s # <<>> THEN 0 ELSE 1)
    + (IF IsUsable(ClientPayload(text, q, c, unique_order)) THEN 0 ELSE 1)

(***************************************************************************)
(* The values of the pure functions on these inputs, computed once         *)
(***************************************************************************)

\* ai_service.py:127  response.text.strip()
StrippedText == [text \in EndpointTexts |-> Strip(text)]

\* ai_service.py:141 None, or the text of line 127
AiResponses == {PyNone} \cup {PyStr(StrippedText[text]) : text \in EndpointTexts \ {<<>>}}

\* ai_service.py:306-343
IntelligentFallbackOf ==
    [k \in Questions \X Contexts |-> intelligent_fallback(k[1], k[2])] @@ <<>>

\* The calls of AIService.generate_answer that can come back: the arguments,
\* the text of the endpoint, and the order list(set(discourse_urls)) of
\* ai_service.py:195 comes in.
Returns ==
    UNION {{[question |-> q, context |-> c, ai_response |-> text, unique_order |-> o] :
              q \in Questions, text \in AiResponses, o \in UniqueOrders(c)} :
           c \in Contexts}

\* ai_service.py:80-89, 292-304: what AIService.generate_answer returns (client),
\* what MultiAIService.generate_answer returns (payload), the fallbacks made
ReturnedOf ==
    [k \in Returns |->
        [client |-> ClientPayload(k.ai_response, k.question, k.context, k.unique_order),
         payload |-> OrchestratorPayload(k.ai_response, k.question, k.context,
                                         k.unique_order),
         made |-> FallbacksMade(k.ai_response, k.question, k.context, k.unique_order)]]

(***************************************************************************)
(* State                                                                   *)
(***************************************************************************)

Threads == {1, 2}

VARIABLES
    \* MultiAIService instance (ai_service.py:263-268)
    request_count,        \* self.request_count
    time_since_last,      \* time.time() - self.last_request_time, capped at min_delay
    is_initialized,       \* self.gemini_service.is_initialized
    \* one MultiAIService.generate_answer call per thread
    pc,                   \* where the call stands
    question_in,             \* its question argument
    context_in,              \* its context argument
    entry_count,          \* request_count when the call was made
    wait_time,            \* ai_service.py:283
    sleep_left,           \* seconds left of the time.sleep in progress
    loaded_count,         \* the value `self.request_count += 1` has read
    attempt,              \* ai_service.py:113
    generated,          \* ai_service.py:80
    result,               \* the payload the call returns
    \* what the call has done so far
    invoked,              \* AIService.generate_answer was entered (Generation Client)
    issued,               \* number of model.generate_content calls issued
    fallbacks,            \* number of fallback payloads produced
    waited,               \* the call found time_since_last < min_delay
    aborted,              \* number of the attempt that raised a quota error, 0 if none
    \* history of the process
    passed,               \* calls of the instance that got past the daily-limit check
    last_gap,             \* time between the two latest stamps of last_request_time
    since_last_call,      \* time since the latest generate_content call, capped
    last_caller,          \* the thread of the latest generate_content call, 0 if none
    gen_total,            \* Generation Client invocations in this process
    started,              \* calls begun by a bounded driver
    \* virtual_ta_api (views.py:17-127)
    api_pc,               \* where the request stands
    request,              \* the request being handled
    answer_data,          \* views.py:90
    validated_response,   \* views.py:101
    http_response,        \* the JsonResponse returned: status and payload
    recorded,             \* views.py:118: record_request has run for this request
    \* DataScraper instance (data_scraper.py:14-19); Unset where no scorer runs
    course_content,       \* self.course_content
    discourse_posts,      \* self.discourse_posts
    \* the image of a request (views.py:79-86); Unset where none is handled
    image_b64,            \* views.py:33
    image_context         \* views.py:80, 82

instVars == <<request_count, time_since_last, is_initialized>>

callVars == <<pc, question_in, context_in, entry_count, wait_time, sleep_left, loaded_count,
              attempt, generated, result, invoked, issued, fallbacks, waited, aborted>>

histVars == <<passed, last_gap, since_last_call, last_caller, gen_total,
              started>>

apiVars == <<api_pc, request, answer_data, validated_response, http_response, recorded,
             course_content, discourse_posts, image_b64, image_context>>

vars == <<instVars, callVars, histVars, apiVars>>

\* A duration b seconds later, capped where the code no longer tells it apart.
Later(a) == IF a < min_delay THEN a + 1 ELSE a

\* MultiAIService.__init__ (ai_service.py:263-268): last_request_time = 0,
\* so the first time_since_last is the whole epoch time.
InitInstance ==
    /\ request_count = 0
    /\ time_since_last = min_delay
    /\ is_initialized \in BOOLEAN

InitCalls ==
    /\ pc = [t \in Threads |-> "idle"]
    /\ question_in = [t \in Threads |-> <<>>]
    /\ context_in = [t \in Threads |-> <<>>]
    /\ entry_count = [t \in Threads |-> 0]
    /\ wait_time = [t \in Threads |-> 0]
    /\ sleep_left = [t \in Threads |-> 0]
    /\ loaded_count = [t \in Threads |-> 0]
    /\ attempt = [t \in Threads |-> 0]
    /\ generated = [t \in Threads |-> PyNone]
    /\ result = [t \in Threads |-> Unset]
    /\ invoked = [t \in Threads |-> FALSE]
    /\ issued = [t \in Threads |-> 0]
    /\ fallbacks = [t \in Threads |-> 0]
    /\ waited = [t \in Threads |-> FALSE]
    /\ aborted = [t \in Threads |-> 0]

InitHistory ==
    /\ passed = 0
    /\ last_gap = min_delay
    /\ since_last_call = min_delay
    /\ last_caller = 0
    /\ gen_total = 0
    /\ started = 0

InitApiVars ==
    /\ api_pc = "idle"
    /\ request = Unset
    /\ answer_data = Unset
    /\ validated_response = Unset
    /\ http_response = Unset
    /\ recorded = FALSE
    /\ course_content = Unset
    /\ discourse_posts = Unset
    /\ image_b64 = Unset
    /\ image_context = Unset

(***************************************************************************)
(* MultiAIService.generate_answer, statement by statement                  *)
(***************************************************************************)

\* A caller enters generate_answer(question, context) on thread t.
CallBegin(t, q, c) ==
    /\ pc[t] = "idle"
    /\ pc' = [pc EXCEPT ![t] = "check"]
    /\ question_in' = [question_in EXCEPT ![t] = q]
    /\ context_in' = [context_in EXCEPT ![t] = c]
    /\ entry_count' = [entry_count EXCEPT ![t] = request_count]
    /\ UNCHANGED <<wait_time, sleep_left, loaded_count, attempt, generated, result,
                   invoked, issued, fallbacks, waited, aborted>>

\* The call returns: its locals are gone.
CallEnd(t) ==
    /\ pc' = [pc EXCEPT ![t] = "idle"]
    /\ question_in' = [question_in EXCEPT ![t] = <<>>]
    /\ context_in' = [context_in EXCEPT ![t] = <<>>]
    /\ entry_count' = [entry_count EXCEPT ![t] = 0]
    /\ wait_time' = [wait_time EXCEPT ![t] = 0]
    /\ sleep_left' = [sleep_left EXCEPT ![t] = 0]
    /\ loaded_count' = [loaded_count EXCEPT ![t] = 0]
    /\ attempt' = [attempt EXCEPT ![t] = 0]
    /\ generated' = [generated EXCEPT ![t] = PyNone]
    /\ result' = [result EXCEPT ![t] = Unset]
    /\ invoked' = [invoked EXCEPT ![t] = FALSE]
    /\ issued' = [issued EXCEPT ![t] = 0]
    /\ fallbacks' = [fallbacks EXCEPT ![t] = 0]
    /\ waited' = [waited EXCEPT ![t] = FALSE]
    /\ aborted' = [aborted EXCEPT ![t] = 0]

\* The limit check with > in place of >=.
LimitReached_After(count) == count > daily_limit

\* ai_service.py:274  self.request_count >= self.daily_limit
LimitReached(count) == count >= daily_limit

\* The daily-limit check with a counter that starts over once the limit is
\* reached.
CheckLimit_Reset(t) ==
    /\ pc[t] = "check"
    /\ IF LimitReached(request_count)
       THEN /\ result' = [result EXCEPT ![t] = IntelligentFallbackOf[<<question_in[t], context_in[t]>>]]
            /\ fallbacks' = [fallbacks EXCEPT ![t] = @ + 1]
            /\ pc' = [pc EXCEPT ![t] = "ret"]
            /\ request_count' = 0
            /\ UNCHANGED passed
       ELSE /\ pc' = [pc EXCEPT ![t] = "time"]
            /\ passed' = passed + 1
            /\ UNCHANGED <<request_count, result, fallbacks>>
    /\ UNCHANGED <<time_since_last, is_initialized, question_in, context_in, entry_count,
                   wait_time, sleep_left,
                   loaded_count, attempt, generated, invoked, issued, waited, aborted,
                   last_gap, since_last_call, last_caller, gen_total,
                   started, apiVars>>

\* ai_service.py:273-276: the daily-limit check
CheckLimit(t) ==
    /\ pc[t] = "check"
    /\ IF LimitReached(request_count)
       THEN /\ result' = [result EXCEPT ![t] = IntelligentFallbackOf[<<question_in[t], context_in[t]>>]]
            /\ fallbacks' = [fallbacks EXCEPT ![t] = @ + 1]
            /\ pc' = [pc EXCEPT ![t] = "ret"]
            /\ UNCHANGED passed
       ELSE /\ pc' = [pc EXCEPT ![t] = "time"]
            /\ passed' = passed + 1
            /\ UNCHANGED <<result, fallbacks>>
    /\ UNCHANGED <<instVars, question_in, context_in, entry_count, wait_time, sleep_left,
                   loaded_count, attempt, generated, invoked, issued, waited, aborted,
                   last_gap, since_last_call, last_caller, gen_total,
                   started, apiVars>>

\* The wait one second short.
WaitTime_Short(since) == IF since < min_delay THEN min_delay - since - 1 ELSE 0

\* ai_service.py:282-283: how long the call is to sleep
WaitTime(since) == IF since < min_delay THEN min_delay - since ELSE 0

\* ai_service.py:279-283: read the clock, compute the wait
ReadTime(t) ==
    /\ pc[t] = "time"
    /\ wait_time' = [wait_time EXCEPT ![t] = WaitTime(time_since_last)]
    /\ waited' = [waited EXCEPT ![t] = time_since_last < min_delay]
    /\ pc' = [pc EXCEPT ![t] = IF time_since_last < min_delay THEN "sleep" ELSE "stamp"]
    /\ UNCHANGED <<instVars, question_in, context_in, entry_count, sleep_left, loaded_count,
                   attempt, generated, result, invoked, issued, fallbacks, aborted,
                   histVars,
                   apiVars>>

\* ai_service.py:285: time.sleep(wait_time) begins
StartSleep(t) ==
    /\ pc[t] = "sleep"
    /\ sleep_left' = [sleep_left EXCEPT ![t] = wait_time[t]]
    /\ pc' = [pc EXCEPT ![t] = "sleeping"]
    /\ UNCHANGED <<instVars, question_in, context_in, entry_count, wait_time, loaded_count,
                   attempt, generated, result, invoked, issued, fallbacks, waited, aborted,
                   histVars, apiVars>>

\* ai_service.py:285: time.sleep(wait_time) returns, not before its time
WakeThrottle(t) ==
    /\ pc[t] = "sleeping"
    /\ sleep_left[t] = 0
    /\ pc' = [pc EXCEPT ![t] = "stamp"]
    /\ UNCHANGED <<instVars, question_in, context_in, entry_count, wait_time, sleep_left,
                   loaded_count, attempt, generated, result, invoked, issued,
                   fallbacks, waited, aborted, histVars, apiVars>>

\* ai_service.py:287: self.last_request_time = time.time()
Stamp(t) ==
    /\ pc[t] = "stamp"
    /\ last_gap' = time_since_last
    /\ time_since_last' = 0
    /\ pc' = [pc EXCEPT ![t] = "load"]
    /\ UNCHANGED <<request_count, is_initialized, question_in, context_in, entry_count,
                   wait_time, sleep_left, loaded_count, attempt, generated, result,
                   invoked, issued, fallbacks, waited, aborted, passed, since_last_call,
                   last_caller, gen_total, started, apiVars>>

\* ai_service.py:288: self.request_count += 1 reads the attribute ...
LoadCount(t) ==
    /\ pc[t] = "load"
    /\ loaded_count' = [loaded_count EXCEPT ![t] = request_count]
    /\ pc' = [pc EXCEPT ![t] = "store"]
    /\ UNCHANGED <<instVars, question_in, context_in, entry_count, wait_time, sleep_left,
                   attempt, generated, result, invoked, issued, fallbacks, waited, aborted,
                   histVars, apiVars>>

\* ai_service.py:288: ... and writes it back, one higher
StoreCount(t) ==
    /\ pc[t] = "store"
    /\ request_count' = loaded_count[t] + 1
    /\ pc' = [pc EXCEPT ![t] = "gemini"]
    /\ UNCHANGED <<time_since_last, is_initialized, question_in, context_in, entry_count,
                   wait_time, sleep_left, loaded_count, attempt, generated, result,
                   invoked, issued, fallbacks, waited, aborted, histVars, apiVars>>

\* Line 292 without its test of is_initialized.
EnterGemini_Unchecked(t) ==
    /\ pc[t] = "gemini"
    /\ invoked' = [invoked EXCEPT ![t] = TRUE]
    /\ gen_total' = gen_total + 1
    /\ attempt' = [attempt EXCEPT ![t] = 0]
    /\ pc' = [pc EXCEPT ![t] = "attempt"]
    /\ UNCHANGED <<result, fallbacks>>
    /\ UNCHANGED <<instVars, question_in, context_in, entry_count, wait_time, sleep_left,
                   loaded_count, generated, issued, waited, aborted, passed, last_gap,
                   since_last_call, last_caller, started, apiVars>>

\* ai_service.py:291-293, 69-77: the Generation Client is entered when it is
\* initialized; otherwise line 304 returns the context-aware fallback.
EnterGemini(t) ==
    /\ pc[t] = "gemini"
    /\ IF is_initialized
       THEN /\ invoked' = [invoked EXCEPT ![t] = TRUE]
            /\ gen_total' = gen_total + 1
            /\ attempt' = [attempt EXCEPT ![t] = 0]
            /\ pc' = [pc EXCEPT ![t] = "attempt"]
            /\ UNCHANGED <<result, fallbacks>>
       ELSE /\ result' = [result EXCEPT ![t] = IntelligentFallbackOf[<<question_in[t], context_in[t]>>]]
            /\ fallbacks' = [fallbacks EXCEPT ![t] = @ + 1]
            /\ pc' = [pc EXCEPT ![t] = "ret"]
            /\ UNCHANGED <<invoked, gen_total, attempt>>
    /\ UNCHANGED <<instVars, question_in, context_in, entry_count, wait_time, sleep_left,
                   loaded_count, generated, issued, waited, aborted, passed, last_gap,
                   since_last_call, last_caller, started, apiVars>>

\* The loop with one round more.
HasNextAttempt_More(a) == a + 1 < max_retries + 1

\* ai_service.py:113: the loop has another round after round `a`
HasNextAttempt(a) == a + 1 < max_retries

\* The round without its except clause: what generate_content raises leaves
\* _generate_with_retry, which then returns no value.
Attempt_Uncaught(t, outcome) ==
    /\ pc[t] = "attempt"
    /\ issued' = [issued EXCEPT ![t] = @ + 1]
    /\ since_last_call' = 0
    /\ last_caller' = t
    /\ generated' = [generated EXCEPT ![t] =
                         IF outcome.kind = "text" /\ outcome.text # <<>>
                         THEN PyStr(StrippedText[outcome.text])
                         ELSE IF outcome.kind = "text" THEN PyNone ELSE Unset]
    /\ pc' = [pc EXCEPT ![t] = "respond"]
    /\ UNCHANGED <<instVars, question_in, context_in, entry_count, wait_time, loaded_count,
                   result, invoked, fallbacks, waited, passed, last_gap, gen_total,
                   started, apiVars, attempt, sleep_left, aborted>>

\* ai_service.py:113-141: one round of the retry loop: generate_content is
\* called and returns or raises `outcome`
Attempt(t, outcome) ==
    /\ pc[t] = "attempt"
    /\ issued' = [issued EXCEPT ![t] = @ + 1]
    /\ since_last_call' = 0
    /\ last_caller' = t
    /\ aborted' = [aborted EXCEPT ![t] =
                       IF outcome.kind = "error" /\ IsQuotaError(outcome.text)
                       THEN issued[t] + 1 ELSE @]
    /\ IF outcome.kind = "text" /\ outcome.text # <<>>
       THEN \* line 126-127: return response.text.strip()
            /\ generated' = [generated EXCEPT ![t] = PyStr(StrippedText[outcome.text])]
            /\ pc' = [pc EXCEPT ![t] = "respond"]
            /\ UNCHANGED <<attempt, sleep_left>>
       ELSE IF outcome.kind = "error" /\ ~StopsRetries(outcome.text)
                /\ HasNextAttempt(attempt[t])
       THEN \* line 138-139: time.sleep(1) begins
            /\ sleep_left' = [sleep_left EXCEPT ![t] = BackoffDelay]
            /\ pc' = [pc EXCEPT ![t] = "backoff"]
            /\ UNCHANGED <<attempt, generated>>
       ELSE IF outcome.kind = "text" /\ HasNextAttempt(attempt[t])
       THEN \* no text, no exception: the next round starts at once
            /\ attempt' = [attempt EXCEPT ![t] = @ + 1]
            /\ UNCHANGED <<pc, generated, sleep_left>>
       ELSE \* line 136 break, or the rounds are used up: line 141 return None
            /\ generated' = [generated EXCEPT ![t] = PyNone]
            /\ pc' = [pc EXCEPT ![t] = "respond"]
            /\ UNCHANGED <<attempt, sleep_left>>
    /\ UNCHANGED <<instVars, question_in, context_in, entry_count, wait_time, loaded_count,
                   result, invoked, fallbacks, waited, passed, last_gap, gen_total,
                   started, apiVars>>

\* The sleep that starts over when it is due to return.
WakeBackoff_Again(t) ==
    /\ pc[t] = "backoff"
    /\ sleep_left[t] = 0
    /\ sleep_left' = [sleep_left EXCEPT ![t] = BackoffDelay]
    /\ UNCHANGED <<instVars, pc, question_in, context_in, entry_count, wait_time,
                   loaded_count, attempt, generated, result, invoked, issued, fallbacks,
                   waited, aborted, histVars, apiVars>>

\* ai_service.py:139: time.sleep(1) returns and the next round starts
WakeBackoff(t) ==
    /\ pc[t] = "backoff"
    /\ sleep_left[t] = 0
    /\ attempt' = [attempt EXCEPT ![t] = @ + 1]
    /\ pc' = [pc EXCEPT ![t] = "attempt"]
    /\ UNCHANGED <<instVars, question_in, context_in, entry_count, wait_time, sleep_left,
                   loaded_count, generated, result, invoked, issued, fallbacks,
                   waited, aborted, histVars, apiVars>>

\* The return that gives the unit of budget back when a fallback is returned.
Respond_Refund(t) ==
    /\ pc[t] = "respond"
    /\ \E k \in Returns :
         /\ k.question = question_in[t]
         /\ k.context = context_in[t]
         /\ k.ai_response = generated[t]
         /\ result' = [result EXCEPT ![t] = ReturnedOf[k].payload]
         /\ fallbacks' = [fallbacks EXCEPT ![t] = @ + ReturnedOf[k].made]
         /\ request_count' = request_count - ReturnedOf[k].made
    /\ pc' = [pc EXCEPT ![t] = "ret"]
    /\ UNCHANGED <<time_since_last, is_initialized, question_in, context_in, entry_count,
                   wait_time, sleep_left, loaded_count, attempt, generated, invoked, issued,
                   waited, aborted, histVars, apiVars>>

\* ai_service.py:82-85, 296-304: the Generation Client's payload is built and
\* MultiAIService returns it, or the context-aware fallback in its place
Respond(t) ==
    /\ pc[t] = "respond"
    /\ \E k \in Returns :
         /\ k.question = question_in[t]
         /\ k.context = context_in[t]
         /\ k.ai_response = generated[t]
         /\ result' = [result EXCEPT ![t] = ReturnedOf[k].payload]
         /\ fallbacks' = [fallbacks EXCEPT ![t] = @ + ReturnedOf[k].made]
    /\ pc' = [pc EXCEPT ![t] = "ret"]
    /\ UNCHANGED <<instVars, question_in, context_in, entry_count, wait_time, sleep_left,
                   loaded_count, attempt, generated, invoked, issued, waited, aborted,
                   histVars, apiVars>>

\* One second passes.
Tick ==
    /\ time_since_last' = Later(time_since_last)
    /\ since_last_call' = Later(since_last_call)
    /\ sleep_left' = [t \in Threads |-> IF sleep_left[t] > 0 THEN sleep_left[t] - 1 ELSE 0]
    /\ UNCHANGED <<request_count, is_initialized, pc, question_in, context_in, entry_count,
                   wait_time, loaded_count, attempt, generated, result, invoked, issued,
                   fallbacks, waited, aborted, passed, last_gap, last_caller, gen_total,
                   started, apiVars>>

(***************************************************************************)
(* One orchestrator instance, its calls made one after the other           *)
(***************************************************************************)

Main == 1

InitOrch ==
    /\ InitInstance
    /\ InitCalls
    /\ InitHistory
    /\ InitApiVars

\* A caller calls generate_answer.
CallStart(t) ==
    /\ \E q \in Questions, c \in Contexts : CallBegin(t, q, c)
    /\ UNCHANGED <<instVars, histVars, apiVars>>

\* generate_answer returns result[t] to its caller.
CallReturn(t) ==
    /\ pc[t] = "ret"
    /\ CallEnd(t)
    /\ UNCHANGED <<instVars, histVars, apiVars>>

\* The statements of generate_answer up to the Generation Client.
Throttle(t) ==
    \/ CheckLimit(t)
    \/ ReadTime(t)
    \/ StartSleep(t)
    \/ WakeThrottle(t)
    \/ Stamp(t)
    \/ LoadCount(t)
    \/ StoreCount(t)
    \/ EnterGemini(t)

NextOrch ==
    \/ CallStart(Main)
    \/ Throttle(Main)
    \/ \E outcome \in EndpointOutcomes : Attempt(Main, outcome)
    \/ WakeBackoff(Main)
    \/ Respond(Main)
    \/ CallReturn(Main)
    \/ Tick

SpecOrch == InitOrch /\ [][NextOrch]_vars

(***************************************************************************)
(* One orchestrator instance shared by concurrent callers                  *)
(***************************************************************************)

\* Calls made in one run of the concurrent callers.
MaxConcCalls == 3

\* A request thread calls generate_answer while the other may be inside it.
ConcStart(t) ==
    /\ started < MaxConcCalls
    /\ CallBegin(t, QuestionSubmit, ContextPost)
    /\ started' = started + 1
    /\ UNCHANGED <<instVars, passed, last_gap, since_last_call, last_caller, gen_total,
                   apiVars>>

\* Thread t is executing statements, which take far less than a second.
Busy(t) == pc[t] \in {"check", "time", "sleep", "stamp", "load", "store", "gemini",
                      "respond", "ret"}

\* A second passes while every thread sleeps, waits for the endpoint or is
\* outside the call.
QuietTick ==
    /\ \A t \in Threads : ~Busy(t)
    /\ Tick

\* The endpoint answers every call of these callers.
ConcOutcomes == {[kind |-> "text", text |-> TextShort]}

NextConc ==
    \/ \E t \in Threads : ConcStart(t)
    \/ \E t \in Threads : Throttle(t)
    \/ \E t \in Threads, outcome \in ConcOutcomes : Attempt(t, outcome)
    \/ \E t \in Threads : Respond(t)
    \/ \E t \in Threads : CallReturn(t)
    \/ QuietTick

SpecConc == InitOrch /\ [][NextConc]_vars


(***************************************************************************)
(* One caller, with progress                                               *)
(***************************************************************************)

\* The calls of one caller, one after the other: the interpreter runs the
\* next statement of a call, time passes while a call sleeps, and every
\* generate_content call returns or raises.
NextLive ==
    \/ ConcStart(Main)
    \/ Throttle(Main)
    \/ \E outcome \in EndpointOutcomes : Attempt(Main, outcome)
    \/ WakeBackoff(Main)
    \/ Respond(Main)
    \/ CallReturn(Main)
    \/ Tick

SpecLive ==
    /\ InitOrch
    /\ [][NextLive]_vars
    /\ WF_vars(Throttle(Main))
    /\ WF_vars(\E outcome \in EndpointOutcomes : Attempt(Main, outcome))
    /\ WF_vars(WakeBackoff(Main))
    /\ WF_vars(Respond(Main))
    /\ WF_vars(Tick)
(***************************************************************************)
(* virtual_ta_api: one request after the other in one process              *)
(***************************************************************************)

\* Generation Client invocations the process is followed beyond daily_limit.
MaxExtra == 1

\* An error payload without a link.
ErrorPayload_NoLinks(message) == Payload(message, <<>>)

\* views.py:27-30 and the like: JsonResponse({'answer': ..., 'links': [forum]})
ErrorPayload(message) == Payload(message, <<ForumLink>>)

\* A request body: whether json.loads accepts it, and the value it yields.
Body(data) == [valid_json |-> TRUE, data |-> data]

\* The bodies posted: no JSON, JSON that is no dict, a dict without a question, a
\* question that is no str, a blank one, one over the limit, and two good ones.
Requests ==
    {[valid_json |-> FALSE, data |-> PyNone],
     Body(PyList(<<>>)),
     Body(PyDict(<<>>)),
     Body(PyDict([question |-> PyInt(7)])),
     Body(PyDict([question |-> PyStr(TextBlank)])),
     Body(PyDict([question |-> PyStr(Rep("a", QuestionLimit + 1))])),
     Body(PyDict([question |-> PyStr(<<" ">> \o QuestionSubmit \o <<"\n">>)])),
     Body(PyDict([question |-> PyStr(QuestionHello)]))}

\* The question taken without .strip().
QuestionOf_Untrimmed(data) ==
    IF data.t # "dict" THEN [raises |-> TRUE, text |-> <<>>]
    ELSE IF "question" \notin DOMAIN data.d THEN [raises |-> FALSE, text |-> <<>>]
    ELSE IF data.d["question"].t # "str" THEN [raises |-> TRUE, text |-> <<>>]
    ELSE [raises |-> FALSE, text |-> data.d["question"].s]

\* views.py:32  data.get('question', '').strip(): the text, or that it raises
\* AttributeError (data is no dict, or the value is no str)
QuestionOf(data) ==
    IF data.t # "dict" THEN [raises |-> TRUE, text |-> <<>>]
    ELSE IF "question" \notin DOMAIN data.d THEN [raises |-> FALSE, text |-> <<>>]
    ELSE IF data.d["question"].t # "str" THEN [raises |-> TRUE, text |-> <<>>]
    ELSE [raises |-> FALSE, text |-> Strip(data.d["question"].s)]

\* return JsonResponse(payload, status=status)
Return(status, payload) ==
    /\ http_response' = [status |-> status, payload |-> payload]
    /\ api_pc' = "done"

\* A POST arrives.
ApiReceive(r) ==
    /\ api_pc = "idle"
    /\ gen_total < daily_limit + MaxExtra
    /\ request' = r
    /\ api_pc' = "parse"
    /\ UNCHANGED <<instVars, callVars, histVars, answer_data, validated_response,
                   http_response,
                   recorded, course_content, discourse_posts,
                   image_b64, image_context>>

\* views.py:22-46 and 122-127: parse the body, check the question
ApiParse ==
    /\ api_pc = "parse"
    /\ IF ~request.valid_json THEN Return(400, ErrorPayload(ApiMessages.invalid_json))
       ELSE IF QuestionOf(request.data).raises THEN Return(500, ErrorPayload(ApiMessages.unexpected))
       ELSE IF QuestionOf(request.data).text = <<>> THEN Return(400, ErrorPayload(ApiMessages.no_question))
       ELSE IF Len(QuestionOf(request.data).text) > QuestionLimit
            THEN Return(400, ErrorPayload(ApiMessages.too_long))
       ELSE /\ api_pc' = "limit"
            /\ UNCHANGED http_response
    /\ UNCHANGED <<instVars, callVars, histVars, request, answer_data, validated_response,
                   recorded, course_content, discourse_posts,
                   image_b64, image_context>>

\* views.py:52-57: the edge rate limit, decided by the cache entries of the
\* client's address
ApiRateLimit(limited) ==
    /\ api_pc = "limit"
    /\ IF limited THEN Return(429, ErrorPayload(ApiMessages.too_many_requests))
       ELSE /\ api_pc' = "init"
            /\ UNCHANGED http_response
    /\ UNCHANGED <<instVars, callVars, histVars, request, answer_data, validated_response,
                   recorded, course_content, discourse_posts,
                   image_b64, image_context>>

\* views.py:60-68: the constructors raise
ApiInitFails ==
    /\ api_pc = "init"
    /\ Return(500, ErrorPayload(ApiMessages.init_failed))
    /\ UNCHANGED <<instVars, callVars, histVars, request, answer_data, validated_response,
                   recorded, course_content, discourse_posts,
                   image_b64, image_context>>

\* views.py:60-62, 71-90: a new MultiAIService is made for this request
\* (ai_service.py:263-268), the context is looked up and generate_answer is
\* called on the new instance
ApiInit(initialized, c) ==
    /\ api_pc = "init"
    /\ request_count' = 0
    /\ time_since_last' = min_delay
    /\ is_initialized' = initialized
    /\ passed' = 0
    /\ CallBegin(Main, QuestionOf(request.data).text, c)
    /\ api_pc' = "generate"
    /\ UNCHANGED <<last_gap, since_last_call, last_caller, gen_total, started, request,
                   answer_data, validated_response, http_response,
                   recorded, course_content, discourse_posts,
                   image_b64, image_context>>

\* views.py:90: generate_answer has returned
ApiGenerated ==
    /\ api_pc = "generate"
    /\ pc[Main] = "ret"
    /\ answer_data' = result[Main]
    /\ CallEnd(Main)
    /\ api_pc' = "validate"
    /\ UNCHANGED <<instVars, histVars, request, validated_response, http_response,
                   recorded, course_content, discourse_posts,
                   image_b64, image_context>>

\* views.py:92-97: generate_answer has raised
ApiGenerateFails ==
    /\ api_pc = "generate"
    /\ pc[Main] = "ret"
    /\ answer_data' = ErrorPayload(ApiMessages.generation_failed)
    /\ CallEnd(Main)
    /\ api_pc' = "validate"
    /\ UNCHANGED <<instVars, histVars, request, validated_response, http_response,
                   recorded, course_content, discourse_posts,
                   image_b64, image_context>>

\* views.py:100-107: validate_response_structure returns, or raises
ApiValidate(raised) ==
    /\ api_pc = "validate"
    /\ validated_response' = IF raised THEN ErrorPayload(MsgValidationFailed)
                             ELSE validate_response_structure(answer_data)
    /\ api_pc' = "respond"
    /\ UNCHANGED <<instVars, callVars, histVars, request, answer_data, http_response,
                   recorded, course_content, discourse_posts,
                   image_b64, image_context>>

\* views.py:109-127: record the request and answer; JsonResponse raising
\* ends in the handler of line 122
ApiRespond(raised) ==
    /\ api_pc = "respond"
    /\ recorded' = TRUE      \* line 118, before the JsonResponse of line 120
    /\ IF raised THEN Return(500, ErrorPayload(ApiMessages.unexpected))
       ELSE Return(200, validated_response)
    /\ UNCHANGED <<instVars, callVars, histVars, request, answer_data, validated_response,
                   course_content, discourse_posts,
                   image_b64, image_context>>

\* The response is on its way; the request's locals are gone.
ApiDone ==
    /\ api_pc = "done"
    /\ api_pc' = "idle"
    /\ request' = Unset
    /\ answer_data' = Unset
    /\ validated_response' = Unset
    /\ http_response' = Unset
    /\ recorded' = FALSE
    /\ UNCHANGED <<instVars, callVars, histVars, course_content, discourse_posts,
                   image_b64, image_context>>

\* A second passes between two requests, or while the request waits for the
\* endpoint.
ApiTick ==
    /\ api_pc \in {"idle", "generate"}
    /\ QuietTick

\* The statements of generate_answer a new instance can reach: it never
\* finds time_since_last < min_delay.
NextApi ==
    \/ \E r \in Requests : ApiReceive(r)
    \/ ApiParse
    \/ \E limited \in BOOLEAN : ApiRateLimit(limited)
    \/ ApiInitFails
    \/ \E initialized \in BOOLEAN, c \in Contexts : ApiInit(initialized, c)
    \/ CheckLimit(Main)
    \/ ReadTime(Main)
    \/ Stamp(Main)
    \/ LoadCount(Main)
    \/ StoreCount(Main)
    \/ EnterGemini(Main)
    \/ \E outcome \in EndpointOutcomes : Attempt(Main, outcome)
    \/ WakeBackoff(Main)
    \/ Respond(Main)
    \/ ApiGenerated
    \/ ApiGenerateFails
    \/ \E raised \in BOOLEAN : ApiValidate(raised)
    \/ \E raised \in BOOLEAN : ApiRespond(raised)
    \/ ApiDone
    \/ ApiTick

InitApi ==
    /\ request_count = 0
    /\ time_since_last = min_delay
    /\ is_initialized = FALSE
    /\ InitCalls
    /\ InitHistory
    /\ InitApiVars

SpecApi == InitApi /\ [][NextApi]_vars

(***************************************************************************)
(* Content Store and Relevance Scorer                                      *)
(***************************************************************************)

\* data_scraper.py:35-86  what _load_course_content assigns to
\* self.course_content, in the order of the dict
CourseContent ==
    <<
      [title |->
          <<"I","n","t","r","o","d","u","c","t","i","o","n"," ","t","o"," ","T","o","o","l","s",
            " ","i","n"," ","D","a","t","a"," ","S","c","i","e","n","c","e">>,
       content |->
          <<"\n"," "," "," "," "," "," "," "," "," "," "," "," "," "," "," "," "," "," "," ",
            " ","T","o","o","l","s"," ","i","n"," ","D","a","t","a"," ","S","c","i","e","n","c",
            "e"," ","c","o","u","r","s","e"," ","o","v","e","r","v","i","e","w",":","\n"," ",
            " "," "," "," "," "," "," "," "," "," "," "," "," "," "," "," "," "," "," ","-"," ",
            "P","y","t","h","o","n"," ","p","r","o","g","r","a","m","m","i","n","g"," ","f","u",
            "n","d","a","m","e","n","t","a","l","s","\n"," "," "," "," "," "," "," "," "," ",
            " "," "," "," "," "," "," "," "," "," "," ","-"," ","V","e","r","s","i","o","n"," ",
            "c","o","n","t","r","o","l"," ","w","i","t","h"," ","G","i","t","\n"," "," "," ",
            " "," "," "," "," "," "," "," "," "," "," "," "," "," "," "," "," ","-"," ","D","a",
            "t","a"," ","a","n","a","l","y","s","i","s"," ","l","i","b","r","a","r","i","e","s",
            " ","(","p","a","n","d","a","s",","," ","n","u","m","p","y",")","\n"," "," "," ",
            " "," "," "," "," "," "," "," "," "," "," "," "," "," "," "," "," ","-"," ","A","P",
            "I"," ","u","s","a","g","e"," ","a","n","d"," ","w","e","b"," ","s","c","r","a","p",
            "i","n","g","\n"," "," "," "," "," "," "," "," "," "," "," "," "," "," "," "," ",
            " "," "," "," ","-"," ","M","a","c","h","i","n","e"," ","l","e","a","r","n","i","n",
            "g"," ","b","a","s","i","c","s","\n"," "," "," "," "," "," "," "," "," "," "," ",
            " "," "," "," "," "," "," "," "," ","-"," ","A","s","s","i","g","n","m","e","n","t",
            " ","s","u","b","m","i","s","s","i","o","n"," ","g","u","i","d","e","l","i","n","e",
            "s","\n"," "," "," "," "," "," "," "," "," "," "," "," "," "," "," "," "," "," ",
            " "," ">>,
       topics |->
          <<<<"p","y","t","h","o","n">>, <<"g","i","t">>, <<"p","a","n","d","a","s">>, <<"n","u","m","p","y">>, <<"a","p","i","s">>, <<"m","l">>>>],
      [title |->
          <<"P","y","t","h","o","n"," ","E","n","v","i","r","o","n","m","e","n","t"," ","S","e",
            "t","u","p">>,
       content |->
          <<"\n"," "," "," "," "," "," "," "," "," "," "," "," "," "," "," "," "," "," "," ",
            " ","S","e","t","t","i","n","g"," ","u","p"," ","P","y","t","h","o","n"," ","e","n",
            "v","i","r","o","n","m","e","n","t"," ","f","o","r"," ","T","D","S",":","\n"," ",
            " "," "," "," "," "," "," "," "," "," "," "," "," "," "," "," "," "," "," ","-"," ",
            "I","n","s","t","a","l","l"," ","P","y","t","h","o","n"," ","3",".","8","+"," ","f",
            "r","o","m"," ","p","y","t","h","o","n",".","o","r","g","\n"," "," "," "," "," ",
            " "," "," "," "," "," "," "," "," "," "," "," "," "," "," ","-"," ","U","s","e"," ",
            "p","i","p"," ","f","o","r"," ","p","a","c","k","a","g","e"," ","m","a","n","a","g",
            "e","m","e","n","t","\n"," "," "," "," "," "," "," "," "," "," "," "," "," "," ",
            " "," "," "," "," "," ","-"," ","V","i","r","t","u","a","l"," ","e","n","v","i","r",
            "o","n","m","e","n","t","s"," ","w","i","t","h"," ","v","e","n","v","\n"," "," ",
            " "," "," "," "," "," "," "," "," "," "," "," "," "," "," "," "," "," ","-"," ","J",
            "u","p","y","t","e","r"," ","n","o","t","e","b","o","o","k"," ","s","e","t","u","p",
            "\n"," "," "," "," "," "," "," "," "," "," "," "," "," "," "," "," "," "," "," ",
            " ","-"," ","C","o","m","m","o","n"," ","p","a","c","k","a","g","e","s",":"," ","p",
            "a","n","d","a","s",","," ","n","u","m","p","y",","," ","m","a","t","p","l","o","t",
            "l","i","b",","," ","s","e","a","b","o","r","n","\n"," "," "," "," "," "," "," ",
            " "," "," "," "," "," "," "," "," "," "," "," "," ">>,
       topics |->
          <<<<"p","y","t","h","o","n">>, <<"s","e","t","u","p">>, <<"e","n","v","i","r","o","n","m","e","n","t">>, <<"j","u","p","y","t","e","r">>, <<"p","a","c","k","a","g","e","s">>>>],
      [title |->
          <<"A","s","s","i","g","n","m","e","n","t"," ","G","u","i","d","e","l","i","n","e","s">>,
       content |->
          <<"\n"," "," "," "," "," "," "," "," "," "," "," "," "," "," "," "," "," "," "," ",
            " ","T","D","S"," ","A","s","s","i","g","n","m","e","n","t"," ","s","u","b","m","i",
            "s","s","i","o","n"," ","g","u","i","d","e","l","i","n","e","s",":","\n"," "," ",
            " "," "," "," "," "," "," "," "," "," "," "," "," "," "," "," "," "," ","-"," ","S",
            "u","b","m","i","t"," ","t","h","r","o","u","g","h"," ","t","h","e"," ","d","e","s",
            "i","g","n","a","t","e","d"," ","p","l","a","t","f","o","r","m","\n"," "," "," ",
            " "," "," "," "," "," "," "," "," "," "," "," "," "," "," "," "," ","-"," ","I","n",
            "c","l","u","d","e"," ","p","r","o","p","e","r"," ","d","o","c","u","m","e","n","t",
            "a","t","i","o","n","\n"," "," "," "," "," "," "," "," "," "," "," "," "," "," ",
            " "," "," "," "," "," ","-"," ","F","o","l","l","o","w"," ","n","a","m","i","n","g",
            " ","c","o","n","v","e","n","t","i","o","n","s","\n"," "," "," "," "," "," "," ",
            " "," "," "," "," "," "," "," "," "," "," "," "," ","-"," ","T","e","s","t"," ","y",
            "o","u","r"," ","c","o","d","e"," ","b","e","f","o","r","e"," ","s","u","b","m","i",
            "s","s","i","o","n","\n"," "," "," "," "," "," "," "," "," "," "," "," "," "," ",
            " "," "," "," "," "," ","-"," ","U","s","e"," ","v","e","r","s","i","o","n"," ","c",
            "o","n","t","r","o","l"," ","f","o","r"," ","t","r","a","c","k","i","n","g"," ","c",
            "h","a","n","g","e","s","\n"," "," "," "," "," "," "," "," "," "," "," "," "," ",
            " "," "," "," "," "," "," ">>,
       topics |->
          <<<<"a","s","s","i","g","n","m","e","n","t","s">>, <<"s","u","b","m","i","s","s","i","o","n">>, <<"g","u","i","d","e","l","i","n","e","s">>, <<"d","o","c","u","m","e","n","t","a","t","i","o","n">>>>],
      [title |->
          <<"A","P","I"," ","U","s","a","g","e"," ","i","n"," ","D","a","t","a"," ","S","c","i",
            "e","n","c","e">>,
       content |->
          <<"\n"," "," "," "," "," "," "," "," "," "," "," "," "," "," "," "," "," "," "," ",
            " ","W","o","r","k","i","n","g"," ","w","i","t","h"," ","A","P","I","s"," ","i","n",
            " ","d","a","t","a"," ","s","c","i","e","n","c","e",":","\n"," "," "," "," "," ",
            " "," "," "," "," "," "," "," "," "," "," "," "," "," "," ","-"," ","R","E","S","T",
            "f","u","l"," ","A","P","I"," ","c","o","n","c","e","p","t","s","\n"," "," "," ",
            " "," "," "," "," "," "," "," "," "," "," "," "," "," "," "," "," ","-"," ","H","T",
            "T","P"," ","m","e","t","h","o","d","s"," ","(","G","E","T",","," ","P","O","S","T",
            ","," ","P","U","T",","," ","D","E","L","E","T","E",")","\n"," "," "," "," "," ",
            " "," "," "," "," "," "," "," "," "," "," "," "," "," "," ","-"," ","A","u","t","h",
            "e","n","t","i","c","a","t","i","o","n"," ","(","A","P","I"," ","k","e","y","s",",",
            " ","O","A","u","t","h",")","\n"," "," "," "," "," "," "," "," "," "," "," "," ",
            " "," "," "," "," "," "," "," ","-"," ","R","a","t","e"," ","l","i","m","i","t","i",
            "n","g"," ","a","n","d"," ","e","r","r","o","r"," ","h","a","n","d","l","i","n","g",
            "\n"," "," "," "," "," "," "," "," "," "," "," "," "," "," "," "," "," "," "," ",
            " ","-"," ","P","o","p","u","l","a","r"," ","A","P","I","s",":"," ","O","p","e","n",
            "A","I",","," ","T","w","i","t","t","e","r",","," ","R","e","d","d","i","t","\n",
            " "," "," "," "," "," "," "," "," "," "," "," "," "," "," "," "," "," "," "," ","-",
            " ","P","y","t","h","o","n"," ","r","e","q","u","e","s","t","s"," ","l","i","b","r",
            "a","r","y"," ","u","s","a","g","e","\n"," "," "," "," "," "," "," "," "," "," ",
            " "," "," "," "," "," "," "," "," "," ">>,
       topics |->
          <<<<"a","p","i">>, <<"r","e","s","t">>, <<"h","t","t","p">>, <<"a","u","t","h","e","n","t","i","c","a","t","i","o","n">>, <<"r","e","q","u","e","s","t","s">>, <<"o","p","e","n","a","i">>>>]
    >>

\* data_scraper.py:97-148  what _load_discourse_sample_data assigns to
\* self.discourse_posts (the fields the scorer reads)
DiscoursePosts ==
    <<
      [title |->
          <<"G","A","5"," ","Q","u","e","s","t","i","o","n"," ","8"," ","C","l","a","r","i","f",
            "i","c","a","t","i","o","n">>,
       url |->
          <<"h","t","t","p","s",":","/","/","d","i","s","c","o","u","r","s","e",".","o","n","l",
            "i","n","e","d","e","g","r","e","e",".","i","i","t","m",".","a","c",".","i","n","/",
            "t","/","g","a","5","-","q","u","e","s","t","i","o","n","-","8","-","c","l","a","r",
            "i","f","i","c","a","t","i","o","n","/","1","5","5","9","3","9","/","4">>,
       content |->
          <<"Y","o","u"," ","m","u","s","t"," ","u","s","e"," ","g","p","t","-","3",".","5","-",
            "t","u","r","b","o","-","0","1","2","5",","," ","e","v","e","n"," ","i","f"," ","t",
            "h","e"," ","A","I"," ","P","r","o","x","y"," ","o","n","l","y"," ","s","u","p","p",
            "o","r","t","s"," ","g","p","t","-","4","o","-","m","i","n","i","."," ","U","s","e",
            " ","t","h","e"," ","O","p","e","n","A","I"," ","A","P","I"," ","d","i","r","e","c",
            "t","l","y"," ","f","o","r"," ","t","h","i","s"," ","q","u","e","s","t","i","o","n",
            "."," ","T","h","e"," ","a","s","s","i","g","n","m","e","n","t"," ","s","p","e","c",
            "i","f","i","c","a","l","l","y"," ","r","e","q","u","i","r","e","s"," ","g","p","t",
            "-","3",".","5","-","t","u","r","b","o","-","0","1","2","5"," ","f","o","r"," ","c",
            "o","n","s","i","s","t","e","n","c","y"," ","i","n"," ","g","r","a","d","i","n","g",
            ".">>,
       tags |->
          <<<<"g","p","t">>, <<"a","i","-","p","r","o","x","y">>, <<"a","s","s","i","g","n","m","e","n","t">>, <<"o","p","e","n","a","i">>, <<"a","p","i">>>>],
      [title |->
          <<"P","y","t","h","o","n"," ","E","n","v","i","r","o","n","m","e","n","t"," ","S","e",
            "t","u","p"," ","I","s","s","u","e","s">>,
       url |->
          <<"h","t","t","p","s",":","/","/","d","i","s","c","o","u","r","s","e",".","o","n","l",
            "i","n","e","d","e","g","r","e","e",".","i","i","t","m",".","a","c",".","i","n","/",
            "t","/","p","y","t","h","o","n","-","s","e","t","u","p","-","i","s","s","u","e","s",
            "/","1","5","6","0","0","1">>,
       content |->
          <<"C","o","m","m","o","n"," ","P","y","t","h","o","n"," ","s","e","t","u","p"," ","i",
            "s","s","u","e","s"," ","a","n","d"," ","s","o","l","u","t","i","o","n","s",":"," ",
            "1",")"," ","U","s","e"," ","P","y","t","h","o","n"," ","3",".","8"," ","o","r"," ",
            "h","i","g","h","e","r",","," ","2",")"," ","C","r","e","a","t","e"," ","v","i","r",
            "t","u","a","l"," ","e","n","v","i","r","o","n","m","e","n","t"," ","w","i","t","h",
            " ","'","p","y","t","h","o","n"," ","-","m"," ","v","e","n","v"," ","t","d","s","_",
            "e","n","v","'",","," ","3",")"," ","A","c","t","i","v","a","t","e"," ","w","i","t",
            "h"," ","'","s","o","u","r","c","e"," ","t","d","s","_","e","n","v","/","b","i","n",
            "/","a","c","t","i","v","a","t","e","'"," ","(","L","i","n","u","x","/","M","a","c",
            ")"," ","o","r"," ","'","t","d","s","_","e","n","v","\\","S","c","r","i","p","t",
            "s","\\","a","c","t","i","v","a","t","e","'"," ","(","W","i","n","d","o","w","s",
            ")",","," ","4",")"," ","I","n","s","t","a","l","l"," ","r","e","q","u","i","r","e",
            "d"," ","p","a","c","k","a","g","e","s"," ","w","i","t","h"," ","'","p","i","p"," ",
            "i","n","s","t","a","l","l"," ","-","r"," ","r","e","q","u","i","r","e","m","e","n",
            "t","s",".","t","x","t","'">>,
       tags |->
          <<<<"p","y","t","h","o","n">>, <<"s","e","t","u","p">>, <<"e","n","v","i","r","o","n","m","e","n","t">>, <<"v","i","r","t","u","a","l","-","e","n","v">>, <<"p","i","p">>>>],
      [title |->
          <<"A","P","I"," ","R","a","t","e"," ","L","i","m","i","t","i","n","g"," ","B","e","s",
            "t"," ","P","r","a","c","t","i","c","e","s">>,
       url |->
          <<"h","t","t","p","s",":","/","/","d","i","s","c","o","u","r","s","e",".","o","n","l",
            "i","n","e","d","e","g","r","e","e",".","i","i","t","m",".","a","c",".","i","n","/",
            "t","/","a","p","i","-","r","a","t","e","-","l","i","m","i","t","i","n","g","/","1",
            "5","5","8","7","6">>,
       content |->
          <<"W","h","e","n"," ","w","o","r","k","i","n","g"," ","w","i","t","h"," ","A","P","I",
            "s",","," ","i","m","p","l","e","m","e","n","t"," ","p","r","o","p","e","r"," ","r",
            "a","t","e"," ","l","i","m","i","t","i","n","g",":"," ","1",")"," ","C","h","e","c",
            "k"," ","A","P","I"," ","d","o","c","u","m","e","n","t","a","t","i","o","n"," ","f",
            "o","r"," ","l","i","m","i","t","s",","," ","2",")"," ","U","s","e"," ","t","i","m",
            "e",".","s","l","e","e","p","(",")"," ","b","e","t","w","e","e","n"," ","r","e","q",
            "u","e","s","t","s",","," ","3",")"," ","I","m","p","l","e","m","e","n","t"," ","e",
            "x","p","o","n","e","n","t","i","a","l"," ","b","a","c","k","o","f","f"," ","f","o",
            "r"," ","r","e","t","r","i","e","s",","," ","4",")"," ","C","a","c","h","e"," ","r",
            "e","s","p","o","n","s","e","s"," ","w","h","e","n"," ","p","o","s","s","i","b","l",
            "e",","," ","5",")"," ","U","s","e"," ","b","a","t","c","h"," ","r","e","q","u","e",
            "s","t","s"," ","i","f"," ","s","u","p","p","o","r","t","e","d"," ","b","y"," ","t",
            "h","e"," ","A","P","I">>,
       tags |->
          <<<<"a","p","i">>, <<"r","a","t","e","-","l","i","m","i","t","i","n","g">>, <<"b","e","s","t","-","p","r","a","c","t","i","c","e","s">>, <<"r","e","q","u","e","s","t","s">>>>],
      [title |->
          <<"A","s","s","i","g","n","m","e","n","t"," ","S","u","b","m","i","s","s","i","o","n",
            " ","F","o","r","m","a","t">>,
       url |->
          <<"h","t","t","p","s",":","/","/","d","i","s","c","o","u","r","s","e",".","o","n","l",
            "i","n","e","d","e","g","r","e","e",".","i","i","t","m",".","a","c",".","i","n","/",
            "t","/","a","s","s","i","g","n","m","e","n","t","-","f","o","r","m","a","t","/","1",
            "5","5","6","5","4">>,
       content |->
          <<"P","r","o","p","e","r"," ","a","s","s","i","g","n","m","e","n","t"," ","s","u","b",
            "m","i","s","s","i","o","n"," ","f","o","r","m","a","t",":"," ","1",")"," ","C","r",
            "e","a","t","e"," ","a"," ","m","a","i","n",".","p","y"," ","f","i","l","e"," ","w",
            "i","t","h"," ","y","o","u","r"," ","s","o","l","u","t","i","o","n",","," ","2",")",
            " ","I","n","c","l","u","d","e"," ","r","e","q","u","i","r","e","m","e","n","t","s",
            ".","t","x","t"," ","w","i","t","h"," ","d","e","p","e","n","d","e","n","c","i","e",
            "s",","," ","3",")"," ","A","d","d"," ","R","E","A","D","M","E",".","m","d"," ","w",
            "i","t","h"," ","e","x","p","l","a","n","a","t","i","o","n",","," ","4",")"," ","U",
            "s","e"," ","m","e","a","n","i","n","g","f","u","l"," ","v","a","r","i","a","b","l",
            "e"," ","n","a","m","e","s"," ","a","n","d"," ","c","o","m","m","e","n","t","s",",",
            " ","5",")"," ","T","e","s","t"," ","y","o","u","r"," ","c","o","d","e"," ","t","h",
            "o","r","o","u","g","h","l","y"," ","b","e","f","o","r","e"," ","s","u","b","m","i",
            "s","s","i","o","n">>,
       tags |->
          <<<<"a","s","s","i","g","n","m","e","n","t">>, <<"s","u","b","m","i","s","s","i","o","n">>, <<"f","o","r","m","a","t">>, <<"r","e","q","u","i","r","e","m","e","n","t","s">>>>],
      [title |->
          <<"G","i","t"," ","V","e","r","s","i","o","n"," ","C","o","n","t","r","o","l"," ","f",
            "o","r"," ","T","D","S">>,
       url |->
          <<"h","t","t","p","s",":","/","/","d","i","s","c","o","u","r","s","e",".","o","n","l",
            "i","n","e","d","e","g","r","e","e",".","i","i","t","m",".","a","c",".","i","n","/",
            "t","/","g","i","t","-","v","e","r","s","i","o","n","-","c","o","n","t","r","o","l",
            "/","1","5","5","4","3","2">>,
       content |->
          <<"U","s","i","n","g"," ","G","i","t"," ","f","o","r"," ","T","D","S"," ","a","s","s",
            "i","g","n","m","e","n","t","s",":"," ","1",")"," ","I","n","i","t","i","a","l","i",
            "z","e"," ","r","e","p","o"," ","w","i","t","h"," ","'","g","i","t"," ","i","n","i",
            "t","'",","," ","2",")"," ","A","d","d"," ","f","i","l","e","s"," ","w","i","t","h",
            " ","'","g","i","t"," ","a","d","d"," ",".","'",","," ","3",")"," ","C","o","m","m",
            "i","t"," ","w","i","t","h"," ","m","e","a","n","i","n","g","f","u","l"," ","m","e",
            "s","s","a","g","e","s"," ","'","g","i","t"," ","c","o","m","m","i","t"," ","-","m",
            " ","\"","m","e","s","s","a","g","e","\"","'",","," ","4",")"," ","C","r","e","a",
            "t","e"," ","b","r","a","n","c","h","e","s"," ","f","o","r"," ","d","i","f","f","e",
            "r","e","n","t"," ","f","e","a","t","u","r","e","s",","," ","5",")"," ","P","u","s",
            "h"," ","t","o"," ","G","i","t","H","u","b"," ","f","o","r"," ","b","a","c","k","u",
            "p"," ","a","n","d"," ","c","o","l","l","a","b","o","r","a","t","i","o","n">>,
       tags |->
          <<<<"g","i","t">>, <<"v","e","r","s","i","o","n","-","c","o","n","t","r","o","l">>, <<"g","i","t","h","u","b">>, <<"c","o","l","l","a","b","o","r","a","t","i","o","n">>>>]
    >>

\* the count stopping at the first word of word_order that is not in text
CountWordsIn_UntilMiss(word_order, text) ==
    Cardinality({i \in 1..Len(word_order) :
                    \A k \in 1..i : Contains(text, word_order[k])})

\* sum(1 for word in question_words if word in text), question_words being
\* iterated in the order word_order: every word is tested, so the count is
\* the same for every order of the set.
CountWordsIn(word_order, text) ==
    Cardinality({i \in 1..Len(word_order) : Contains(text, word_order[i])})

\* The top three of an ascending stable sort read backwards: entries of
\* equal score come out in the reverse of the order they were appended in.
TopMatches_TiesReversed(matches) ==
    LET n == Len(matches)
        before(i) == {j \in 1..n : \/ matches[j][1] > matches[i][1]
                                   \/ matches[j][1] = matches[i][1] /\ j > i}
        at(r) == CHOOSE i \in 1..n : Cardinality(before(i)) = r - 1
    IN  AsList([r \in 1..(IF n < 3 THEN n ELSE 3) |-> matches[at(r)][2]])

\* data_scraper.py:202-203, 238-239: matches.sort(key=..., reverse=True) and
\* the texts of matches[:3]; list.sort is stable, so entries of equal score
\* stay in the order they were appended in.
TopMatches(matches) ==
    LET n == Len(matches)
        before(i) == {j \in 1..n : \/ matches[j][1] > matches[i][1]
                                   \/ matches[j][1] = matches[i][1] /\ j < i}
        at(r) == CHOOSE i \in 1..n : Cardinality(before(i)) = r - 1
    IN  AsList([r \in 1..(IF n < 3 THEN n ELSE 3) |-> matches[at(r)][2]])

\* data_scraper.py:186-196: relevance_score of one section
course_relevance_score(question_lower, word_order, section_data) ==
    LET content_lower == Lower(section_data.content)
        topics == section_data.topics
        topic_matches ==
            Cardinality({k \in 1..Len(topics) : Contains(question_lower, topics[k])})
        content_matches == CountWordsIn(word_order, content_lower)
    IN  topic_matches * 2 + content_matches

\* data_scraper.py:199: the text a section is rendered to
CourseText(section_data) ==
    <<"C","o","u","r","s","e"," ","M","a","t","e","r","i","a","l"," ","-"," ">>
        \o section_data.title \o <<":", "\n">> \o Strip(section_data.content)

\* data_scraper.py:178-207  DataScraper._search_course_content
search_course_content(question_lower, word_order, sections) ==
    LET scored == AsList([i \in 1..Len(sections) |->
            <<course_relevance_score(question_lower, word_order, sections[i]),
              CourseText(sections[i])>>])
    IN  TopMatches(SelectSeq(scored, LAMBDA m : m[1] > 0))

\* data_scraper.py:217-231: relevance_score of one post
post_relevance_score(question_lower, word_order, post) ==
    LET title_lower == Lower(post.title)
        content_lower == Lower(post.content)
        tags == post.tags
        tag_matches ==
            Cardinality({k \in 1..Len(tags) : Contains(question_lower, tags[k])})
        title_matches == CountWordsIn(word_order, title_lower)
        content_matches == CountWordsIn(word_order, content_lower)
    IN  tag_matches * 3 + title_matches * 2 + content_matches

\* data_scraper.py:234: the text a post is rendered to
PostText(post) ==
    <<"D","i","s","c","o","u","r","s","e"," ","P","o","s","t",":"," ">>
        \o post.title \o <<"\n","U","R","L",":"," ">> \o post.url
        \o <<"\n","C","o","n","t","e","n","t",":"," ">> \o post.content
        \o <<"\n","T","a","g","s",":"," ">> \o JoinWith(post.tags, <<",", " ">>)

\* data_scraper.py:209-243  DataScraper._search_discourse_posts
search_discourse_posts(question_lower, word_order, posts) ==
    LET scored == AsList([i \in 1..Len(posts) |->
            <<post_relevance_score(question_lower, word_order, posts[i]),
              PostText(posts[i])>>])
    IN  TopMatches(SelectSeq(scored, LAMBDA m : m[1] > 0))

\* search_relevant_content with room for all six blocks.
search_relevant_content_SixBlocks(question, word_order, sections, posts) ==
    LET question_lower == Lower(question)
        relevant_content ==
            search_course_content(question_lower, word_order, sections)
                \o search_discourse_posts(question_lower, word_order, posts)
        combined_content == JoinWith(Take(relevant_content, 6), <<"\n", "\n">>)
    IN  IF combined_content # <<>> THEN combined_content ELSE MsgNoContent

\* data_scraper.py:155-176  DataScraper.search_relevant_content, with
\* set(question_lower.split()) iterated in the order word_order.  Nothing in
\* the try block raises for a str question, so line 176 is never reached.
search_relevant_content(question, word_order, sections, posts) ==
    LET question_lower == Lower(question)
        relevant_content ==
            search_course_content(question_lower, word_order, sections)
                \o search_discourse_posts(question_lower, word_order, posts)
        combined_content == JoinWith(Take(relevant_content, 5), <<"\n", "\n">>)
    IN  IF combined_content # <<>> THEN combined_content ELSE MsgNoContent

(***************************************************************************)
(* The scorer, the link extractor and the fallback tiers applied to inputs *)
(***************************************************************************)

\* The questions handed in: keywords of one bucket, of several buckets, of
\* none.
FallbackQuestions ==
    {
     <<"H","o","w"," ","d","o"," ","I"," ","s","e","t"," ","u","p"," ","m","y"," ","P","y","t",
       "h","o","n"," ","v","i","r","t","u","a","l"," ","e","n","v","i","r","o","n","m","e","n",
       "t","?">>,
     <<"p","y","t","h","o","n"," ","a","p","i"," ","e","r","r","o","r">>,
     <<"p","i","p"," ","i","n","s","t","a","l","l"," ","g","i","t">>,
     <<"f","i","x"," ","m","y"," ","h","o","m","e","w","o","r","k"," ","a","s","s","i","g","n",
       "m","e","n","t">>,
     <<"G","i","t","H","u","b"," ","c","o","m","m","i","t"," ","p","r","o","b","l","e","m">>,
     <<"d","e","b","u","g"," ","t","h","i","s"," ","i","s","s","u","e">>,
     <<"P","l","e","a","s","e"," ","e","x","p","l","a","i","n">>,
     <<"H","e","l","l","o"," ","t","h","e","r","e">>,
     <<>>
    }

\* The contexts handed in: none, the "nothing found" sentence, one post,
\* three distinct forum URLs one of them twice, and one long sentence that
\* holds a word of the question.
FallbackContexts ==
    {<<>>, MsgNoContent, ContextPost,
     <<"S","e","e"," ","h","t","t","p","s",":","/","/","d","i","s","c","o","u","r","s","e",".",
       "o","n","l","i","n","e","d","e","g","r","e","e",".","i","i","t","m",".","a","c",".","i",
       "n","/","t","/","p","y","t","h","o","n","-","s","e","t","u","p","-","i","s","s","u","e",
       "s","/","1","5","6","0","0","1"," ","a","n","d"," ","h","t","t","p","s",":","/","/","d",
       "i","s","c","o","u","r","s","e",".","o","n","l","i","n","e","d","e","g","r","e","e",".",
       "i","i","t","m",".","a","c",".","i","n","/","t","/","g","a","5","-","q","u","e","s","t",
       "i","o","n","-","8","-","c","l","a","r","i","f","i","c","a","t","i","o","n","/","1","5",
       "5","9","3","9","/","4"," ","t","h","e","n"," ","h","t","t","p","s",":","/","/","d","i",
       "s","c","o","u","r","s","e",".","o","n","l","i","n","e","d","e","g","r","e","e",".","i",
       "i","t","m",".","a","c",".","i","n","/","t","/","p","y","t","h","o","n","-","s","e","t",
       "u","p","-","i","s","s","u","e","s","/","1","5","6","0","0","1"," ","a","g","a","i","n",
       ","," ","a","l","s","o"," ","h","t","t","p","s",":","/","/","d","i","s","c","o","u","r",
       "s","e",".","o","n","l","i","n","e","d","e","g","r","e","e",".","i","i","t","m",".","a",
       "c",".","i","n","/","t","/","g","i","t","-","v","e","r","s","i","o","n","-","c","o","n",
       "t","r","o","l","/","1","5","5","4","3","2">>,
     <<"h","o","m","e","w","o","r","k"," ">> \o Rep("x", AnswerLimit)}

\* A DataScraper has been constructed; two callers hold the same question.
InitFallback ==
    /\ request_count = 0
    /\ time_since_last = min_delay
    /\ is_initialized = FALSE
    /\ InitHistory
    /\ api_pc = "idle"
    /\ request = Unset
    /\ answer_data = Unset
    /\ validated_response = Unset
    /\ http_response = Unset
    /\ recorded = FALSE
    /\ course_content = CourseContent
    /\ discourse_posts = DiscoursePosts
    /\ image_b64 = Unset
    /\ image_context = Unset
    /\ pc = [t \in Threads |-> "idle"]
    /\ \E q \in FallbackQuestions : question_in = [t \in Threads |-> q]
    /\ \E c \in FallbackContexts : context_in = [t \in Threads |-> c]
    /\ entry_count = [t \in Threads |-> 0]
    /\ wait_time = [t \in Threads |-> 0]
    /\ sleep_left = [t \in Threads |-> 0]
    /\ loaded_count = [t \in Threads |-> 0]
    /\ attempt = [t \in Threads |-> 0]
    /\ generated = [t \in Threads |-> PyNone]
    /\ result = [t \in Threads |-> Unset]
    /\ invoked = [t \in Threads |-> FALSE]
    /\ issued = [t \in Threads |-> 0]
    /\ fallbacks = [t \in Threads |-> 0]
    /\ waited = [t \in Threads |-> FALSE]
    /\ aborted = [t \in Threads |-> 0]

\* Words of a question above which not every order of the set is tried
MaxPermuted == 3

\* The orders set(question_lower.split()) is iterated in: every arrangement
\* of the words (the order depends on the process's hash seed); for more
\* than MaxPermuted words, the order of first occurrence and its reverse.
WordOrders(question_lower) ==
    LET S == WordSet(question_lower)
        n == Cardinality(S)
        first(w) == SetMin({j \in 1..Len(question_lower) :
                        /\ j + Len(w) - 1 <= Len(question_lower)
                        /\ SubSeq(question_lower, j, j + Len(w) - 1) = w
                        /\ (j = 1 \/ question_lower[j - 1] \in Whitespace)
                        /\ RunEnd(question_lower, j, Whitespace) = j + Len(w) - 1})
        rank(w) == Cardinality({v \in S : first(v) < first(w)}) + 1
        inOrder == [r \in 1..n |-> CHOOSE w \in S : rank(w) = r]
    IN  IF n <= MaxPermuted
        THEN {o \in [1..n -> S] : \A w \in S : \E i \in 1..n : o[i] = w}
        ELSE {inOrder, [r \in 1..n |-> inOrder[n + 1 - r]]}

\* views.py:72  context = data_scraper.search_relevant_content(question)
Search(t) ==
    /\ pc[t] = "idle"
    /\ \E word_order \in WordOrders(Lower(question_in[t])) :
           context_in' = [context_in EXCEPT ![t] =
               search_relevant_content(question_in[t], word_order,
                                       course_content, discourse_posts)]
    /\ pc' = [pc EXCEPT ![t] = "scored"]
    /\ UNCHANGED <<instVars, histVars, apiVars, question_in, entry_count, wait_time,
                   sleep_left, loaded_count, attempt, generated, result, invoked, issued,
                   fallbacks, waited, aborted>>

\* ai_service.py:147  links = self._extract_relevant_links(context, question)
ExtractLinks ==
    /\ pc[Main] \in {"idle", "scored"}
    /\ \E unique_order \in UniqueOrders(context_in[Main]) :
           result' = [result EXCEPT ![Main] =
               PyList(extract_relevant_links(context_in[Main], question_in[Main],
                                             unique_order))]
    /\ pc' = [pc EXCEPT ![Main] = "links"]
    /\ UNCHANGED <<instVars, histVars, apiVars, question_in, context_in, entry_count,
                   wait_time, sleep_left, loaded_count, attempt, generated, invoked, issued,
                   fallbacks, waited, aborted>>

\* ai_service.py:74, 85, 89  return self._fallback_response(question)
CategoryFallback ==
    /\ pc[Main] \in {"idle", "scored"}
    /\ result' = [result EXCEPT ![Main] = fallback_response(question_in[Main])]
    /\ pc' = [pc EXCEPT ![Main] = "category"]
    /\ UNCHANGED <<instVars, histVars, apiVars, question_in, context_in, entry_count,
                   wait_time, sleep_left, loaded_count, attempt, generated, invoked, issued,
                   fallbacks, waited, aborted>>

\* ai_service.py:276, 304  return self._intelligent_fallback(question, context)
ContextFallback ==
    /\ pc[Main] \in {"idle", "scored"}
    /\ result' = [result EXCEPT ![Main] =
                      intelligent_fallback(question_in[Main], context_in[Main])]
    /\ pc' = [pc EXCEPT ![Main] = "contextual"]
    /\ UNCHANGED <<instVars, histVars, apiVars, question_in, context_in, entry_count,
                   wait_time, sleep_left, loaded_count, attempt, generated, invoked, issued,
                   fallbacks, waited, aborted>>

NextFallback ==
    \/ \E t \in Threads : Search(t)
    \/ ExtractLinks
    \/ CategoryFallback
    \/ ContextFallback

SpecFallback == InitFallback /\ [][NextFallback]_vars

(***************************************************************************)
(* Image notice (views.py:234-264)                                         *)
(***************************************************************************)

\* a limit of 10 MB counted in powers of ten
ImageLimit_Decimal == 10 * 1000 * 1000

\* views.py:245  10 * 1024 * 1024
ImageLimit == 10 * 1024 * 1024

\* views.py:246
MsgImageTooLarge ==
    <<"I","m","a","g","e"," ","t","o","o"," ","l","a","r","g","e"," ","(","m","a","x"," ","1",
       "0","M","B",")",".">>

\* views.py:264
MsgImageFailed ==
    <<"I","m","a","g","e"," ","p","r","o","v","i","d","e","d"," ","b","u","t"," ","c","o","u",
       "l","d"," ","n","o","t"," ","b","e"," ","p","r","o","c","e","s","s","e","d",".">>

\* The 64 characters of the base64 alphabet, in the order of their values
B64Alphabet == UpperChars \o LowerChars \o DigitChars \o <<"+", "/">>

RECURSIVE a2b_base64(_, _, _, _, _, _)
\* binascii.a2b_base64 as base64.b64decode(s) calls it (not strict), from
\* character i on: quad_pos characters of the current group of four are
\* read, leftchar holds their bits not yet put out, pads counts the "="
\* just seen.  Characters outside the alphabet are skipped; a "=" that
\* completes a group ends the decoding; a group left open at the end raises.
a2b_base64(s, i, quad_pos, pads, leftchar, out) ==
    IF i > Len(s) THEN [ok |-> quad_pos = 0, data |-> out]
    ELSE IF s[i] = "="
         THEN IF quad_pos >= 2 /\ quad_pos + pads + 1 >= 4
              THEN [ok |-> TRUE, data |-> out]
              ELSE a2b_base64(s, i + 1, quad_pos, IF quad_pos >= 2 THEN pads + 1 ELSE pads,
                              leftchar, out)
    ELSE IF \A k \in 1..Len(B64Alphabet) : B64Alphabet[k] # s[i]
         THEN a2b_base64(s, i + 1, quad_pos, pads, leftchar, out)
    ELSE LET this_ch == (CHOOSE k \in 1..Len(B64Alphabet) : B64Alphabet[k] = s[i]) - 1
         IN  IF quad_pos = 0 THEN a2b_base64(s, i + 1, 1, 0, this_ch, out)
             ELSE IF quad_pos = 1
                  THEN a2b_base64(s, i + 1, 2, 0, this_ch % 16,
                                  Append(out, leftchar * 4 + this_ch \div 16))
             ELSE IF quad_pos = 2
                  THEN a2b_base64(s, i + 1, 3, 0, this_ch % 4,
                                  Append(out, leftchar * 16 + this_ch \div 4))
             ELSE a2b_base64(s, i + 1, 0, 0, 0, Append(out, leftchar * 64 + this_ch))

\* An image string is written [head, fill, tail]: the characters head, then
\* fill groups "AAAA" (three zero bytes each), then the characters tail;
\* head always ends on a full group.  The bytes it decodes to are written
\* the same way: lead, then `zeros` zero bytes, then rest.
\* views.py:241  base64.b64decode(image_b64)
b64decode(image) ==
    LET h == a2b_base64(image.head, 1, 0, 0, 0, <<>>)
        t == a2b_base64(image.tail, 1, 0, 0, 0, <<>>)
    IN  [ok |-> h.ok /\ t.ok, lead |-> h.data, zeros |-> 3 * image.fill, rest |-> t.data]

\* views.py:234-264  process_image_data
process_image_data(image) ==
    IF image.head = <<>> /\ image.fill = 0 /\ image.tail = <<>> THEN <<>>
    ELSE LET image_data == b64decode(image)
             image_size == Len(image_data.lead) + image_data.zeros + Len(image_data.rest)
             \* image_data[:12]
             first == Take(image_data.lead
                               \o Rep(0, IF image_data.zeros < 12 THEN image_data.zeros ELSE 12)
                               \o image_data.rest, 12)
             format_type ==
                 IF StartsWith(first, <<255, 216, 255>>) THEN <<"J","P","E","G">>
                 ELSE IF StartsWith(first, <<137, 80, 78, 71>>) THEN <<"P","N","G">>
                 ELSE IF StartsWith(first, <<71, 73, 70>>) THEN <<"G","I","F">>
                 ELSE IF StartsWith(first, <<82, 73, 70, 70>>)
                         /\ Contains(first, <<87, 69, 66, 80>>) THEN <<"W","E","B","P">>
                 ELSE <<"U","n","k","n","o","w","n">>
         IN  IF ~image_data.ok THEN MsgImageFailed
             ELSE IF image_size > ImageLimit THEN MsgImageTooLarge
             ELSE <<"I","m","a","g","e"," ","p","r","o","v","i","d","e","d"," ","(">>
                      \o format_type \o <<",", " ">> \o Digits(image_size)
                      \o <<" ","b","y","t","e","s",")","."," ","T","h","i","s"," ","a","p","p",
                           "e","a","r","s"," ","t","o"," ","b","e"," ","a"," ","s","c","r","e",
                           "e","n","s","h","o","t"," ","o","r"," ","d","i","a","g","r","a","m",
                           " ","r","e","l","a","t","e","d"," ","t","o"," ","t","h","e"," ","T",
                           "D","S"," ","q","u","e","s","t","i","o","n",".">>

\* The image strings handed in.  Heads: one per format, a RIFF file that is
\* not WEBP, a GIF with "WEBP" among its first 12 bytes, bytes of no known
\* format, a PNG written with a line break, and no head.  Tails: none, one
\* and two bytes with padding, and two that cannot be decoded.  The fills
\* bring the decoded size next to ImageLimit.
ImageInputs ==
    [head : {<<>>,
             \* JPEG
             <<"/","9","j","/","4","A","A","Q","S","k","Z","J","R","g","A","B">>,
             \* PNG
             <<"i","V","B","O","R","w","0","K","G","g","o","A","A","A","A","N">>,
             \* GIF
             <<"R","0","l","G","O","D","l","h","A","Q","A","B","A","I","A","A">>,
             \* WEBP
             <<"U","k","l","G","R","i","Q","A","A","A","B","X","R","U","J","Q">>,
             \* RIFF without WEBP
             <<"U","k","l","G","R","i","Q","A","A","A","B","X","Q","V","Z","F">>,
             \* GIF with WEBP inside
             <<"R","0","l","G","O","F","d","F","Q","l","A","A","A","A","A","A">>,
             \* no magic bytes
             <<"Q","k","1","G","A","A","A","A","A","A","A","A","A","D","Y","A">>,
             \* PNG, with a line break
             <<"i","V","B","O","R","w","0","K","\n","G","g","o","A","A","A","A","N">>},
     fill : {0, 1, (ImageLimit - 13) \div 3, (ImageLimit - 13) \div 3 + 1},
     tail : {<<>>, <<"Q","Q","=","=">>, <<"Q","U","I","=">>, <<"Q","U","I">>, <<"Q">>}]

InitImage ==
    /\ request_count = 0
    /\ time_since_last = min_delay
    /\ is_initialized = FALSE
    /\ InitCalls
    /\ InitHistory
    /\ api_pc = "image"
    /\ request = Unset
    /\ answer_data = Unset
    /\ validated_response = Unset
    /\ http_response = Unset
    /\ recorded = FALSE
    /\ course_content = Unset
    /\ discourse_posts = Unset
    /\ image_b64 \in ImageInputs
    /\ image_context = Unset

\* views.py:82  image_context = process_image_data(image_b64)
ProcessImage ==
    /\ api_pc = "image"
    /\ image_context' = process_image_data(image_b64)
    /\ api_pc' = "generate"
    /\ UNCHANGED <<instVars, callVars, histVars, request, answer_data, validated_response,
                   http_response, recorded, course_content, discourse_posts, image_b64>>

NextImage == ProcessImage

SpecImage == InitImage /\ [][NextImage]_vars


(***************************************************************************)
(* _clean_answer_text applied to generated texts                           *)
(***************************************************************************)

\* The texts handed to _clean_answer_text: white space in front, a first
\* sentence of `first` letters, what follows it, a second sentence of
\* `second` letters and a third one or none.  The lengths put the first
\* sentence and the first two sentences next to CleanKeep, and the whole
\* text on both sides of CleanLimit.
CleanInputs ==
    [lead : {<<>>, <<" ", "\n">>},
     first : {0, 1, CleanKeep - 2, CleanKeep - 1, CleanKeep, CleanKeep + 1, CleanLimit + 1},
     sep : {<<>>, <<" ">>, <<".">>, <<".", " ">>, <<".", " ", "\t", "\n", " ">>},
     second : {0, 1, CleanLimit - CleanKeep - 2, CleanLimit - CleanKeep - 1,
               CleanLimit - CleanKeep, CleanLimit - CleanKeep + 1},
     rest : {<<>>, <<".", " ">> \o Rep("c", 300) \o <<".", " ", "\n">>}]

\* The text of an input.
RawText(input) ==
    input.lead \o Rep("a", input.first) \o input.sep \o Rep("b", input.second) \o input.rest

\* ai_service.py:80: ai_response holds the text of the endpoint
InitClean ==
    /\ request_count = 0
    /\ time_since_last = min_delay
    /\ is_initialized = TRUE
    /\ pc = [t \in Threads |-> "idle"]
    /\ question_in = [t \in Threads |-> <<>>]
    /\ context_in = [t \in Threads |-> <<>>]
    /\ entry_count = [t \in Threads |-> 0]
    /\ wait_time = [t \in Threads |-> 0]
    /\ sleep_left = [t \in Threads |-> 0]
    /\ loaded_count = [t \in Threads |-> 0]
    /\ attempt = [t \in Threads |-> 0]
    /\ \E input \in CleanInputs : generated = [t \in Threads |-> PyStr(RawText(input))]
    /\ result = [t \in Threads |-> Unset]
    /\ invoked = [t \in Threads |-> TRUE]
    /\ issued = [t \in Threads |-> 0]
    /\ fallbacks = [t \in Threads |-> 0]
    /\ waited = [t \in Threads |-> FALSE]
    /\ aborted = [t \in Threads |-> 0]
    /\ InitHistory
    /\ InitApiVars

\* ai_service.py:146  answer = self._clean_answer_text(ai_response)
CleanAnswerText ==
    /\ pc[Main] = "idle"
    /\ result' = [result EXCEPT ![Main] = PyStr(clean_answer_text(generated[Main].s))]
    /\ pc' = [pc EXCEPT ![Main] = "cleaned"]
    /\ UNCHANGED <<instVars, histVars, apiVars, question_in, context_in, entry_count,
                   wait_time, sleep_left, loaded_count, attempt, generated, invoked, issued,
                   fallbacks, waited, aborted>>

NextClean == CleanAnswerText

SpecClean == InitClean /\ [][NextClean]_vars
(***************************************************************************)
(* The validator applied to every input                                    *)
(***************************************************************************)

InitValidate ==
    /\ answer_data \in ValidateInputs
    /\ validated_response = Unset
    /\ api_pc = "validate"
    /\ request = Unset
    /\ http_response = Unset
    /\ recorded = FALSE
    /\ course_content = Unset
    /\ discourse_posts = Unset
    /\ image_b64 = Unset
    /\ image_context = Unset
    /\ request_count = 0
    /\ time_since_last = min_delay
    /\ is_initialized = FALSE
    /\ InitCalls
    /\ InitHistory

\* views.py:101
Validate ==
    /\ api_pc = "validate"
    /\ validated_response' = validate_response_structure(answer_data)
    /\ api_pc' = "respond"
    /\ UNCHANGED <<instVars, callVars, histVars, request, answer_data, http_response, recorded,
                   course_content, discourse_posts,
                   image_b64, image_context>>

NextValidate == Validate

SpecValidate == InitValidate /\ [][NextValidate]_vars

(***************************************************************************)
(* The output contract                                                     *)
(***************************************************************************)

\* AnswerPayload: 1 <= len(answer) <= 2000, at least one link, every link a
\* dict whose url starts with "http" and whose text is not empty.
IsAnswerPayload(p) ==
    /\ p.t = "dict"
    /\ {"answer", "links"} \subseteq DOMAIN p.d
    /\ p.d["answer"].t = "str"
    /\ Len(p.d["answer"].s) >= 1
    /\ Len(p.d["answer"].s) <= 2000
    /\ p.d["links"].t = "list"
    /\ Len(p.d["links"].d) >= 1
    /\ \A i \in 1..Len(p.d["links"].d) :
          LET l == p.d["links"].d[i]
          IN  /\ IsLinkDict(l)
              /\ l.d.url.t = "str"
              /\ l.d.text.t = "str"
              /\ StartsWith(l.d.url.s, HttpPrefix)
              /\ Len(l.d.text.s) >= 1

\* C1: whatever dict the validator is given, the payload it returns has an
\* answer of 1 to 2000 characters and at least one link, every link with a
\* url starting with "http" and a non-empty text.
C1_ValidatorContract ==
    validated_response # Unset => IsAnswerPayload(validated_response)

\* C1 witness: a dict whose answer is too long and whose links are all
\* rejected has been validated.
C1_Witness ==
    /\ validated_response # Unset
    /\ answer_data.t = "dict"
    /\ "answer" \in DOMAIN answer_data.d
    /\ answer_data.d["answer"].t = "str"
    /\ Len(Strip(answer_data.d["answer"].s)) > AnswerLimit
    /\ "links" \in DOMAIN answer_data.d
    /\ answer_data.d["links"].t = "list"
    /\ Len(answer_data.d["links"].d) = 2
    /\ validated_response.d["links"].d = <<ForumLink>>
    /\ Len(validated_response.d["answer"].s) = AnswerLimit

(***************************************************************************)
(* The request pipeline                                                    *)
(***************************************************************************)

\* C2: every path of virtual_ta_api ends in a response, and the payload of
\* every response has a non-empty answer of at most 2000 characters and at
\* least one link whose url starts with "http".
C2_EveryPathAnswers ==
    /\ api_pc = "done" => http_response # Unset
    /\ http_response # Unset =>
          /\ http_response.status \in {200, 400, 429, 500}
          /\ IsAnswerPayload(http_response.payload)

\* C2 witness: a request whose answer was generated has been answered with
\* status 200.
C2_Witness ==
    /\ api_pc = "done"
    /\ http_response.status = 200
    /\ http_response.payload = answer_data
    /\ answer_data.d["answer"].s = Strip(TextShort)
    /\ QuestionOf(request.data).text = QuestionSubmit

(***************************************************************************)
(* The daily limit                                                         *)
(***************************************************************************)

\* C3: a call made when request_count has reached daily_limit does not enter
\* the Generation Client, issues no generate_content call and returns the
\* context-aware fallback for its question and context.
C3_NoGenerationPastLimit ==
    \A t \in Threads :
        (pc[t] \notin {"idle", "check"} /\ entry_count[t] >= daily_limit) =>
            /\ pc[t] = "ret"
            /\ ~invoked[t]
            /\ issued[t] = 0
            /\ result[t] = intelligent_fallback(question_in[t], context_in[t])

\* C3 witness: the call after the daily_limit-th has returned.
C3_Witness ==
    /\ pc[Main] = "ret"
    /\ entry_count[Main] = daily_limit
    /\ is_initialized
    /\ result[Main] # Unset

\* C4: the Generation Client is invoked at most daily_limit times in one
\* process, whatever requests virtual_ta_api handles.
C4_GenerationsWithinLimit == gen_total <= daily_limit

(***************************************************************************)
(* The throttle                                                            *)
(***************************************************************************)

\* C5: on one instance called sequentially, two consecutive stamps of
\* last_request_time are at least min_delay apart.
C5_StampsApart == last_gap >= min_delay

\* C5 witness: a call that came early has slept and stamped.
C5_Witness ==
    /\ pc[Main] = "load"
    /\ waited[Main]
    /\ wait_time[Main] = min_delay - 1
    /\ last_gap = min_delay

\* C6: no generate_content call is issued less than min_delay after the
\* one before it.
C6_CallsApart ==
    [][(\E t \in Threads : issued'[t] = issued[t] + 1) => since_last_call >= min_delay]_vars

(***************************************************************************)
(* Concurrent callers                                                      *)
(***************************************************************************)

\* C7: with concurrent callers on one instance, request_count and the
\* number of calls past the limit check stay within daily_limit, and no
\* increment is lost: once no call is running, request_count is the number
\* of calls that got past the check.
C7_AtomicCheckAndCount ==
    /\ request_count <= daily_limit
    /\ passed <= daily_limit
    /\ (\A t \in Threads : pc[t] = "idle") => request_count = passed

\* C8: of two concurrent callers that both found time_since_last <
\* min_delay, one does not issue its first generate_content call less than
\* min_delay after a call of the other.
C8_WaitersSerialized ==
    [][\A t, u \in Threads :
          (/\ t # u
           /\ waited[t]
           /\ waited[u]
           /\ issued[u] >= 1
           /\ last_caller = u
           /\ issued[t] = 0
           /\ issued'[t] = 1) => since_last_call >= min_delay]_vars

(***************************************************************************)
(* Fallbacks                                                               *)
(***************************************************************************)

\* C9: a call whose Generation Client came back without a text returns the
\* context-aware fallback for its question and context.
C9_ContextAwareFallback ==
    \A t \in Threads :
        (pc[t] = "ret" /\ invoked[t] /\ (generated[t] = PyNone \/ generated[t].s = <<>>)) =>
            result[t] = intelligent_fallback(question_in[t], context_in[t])

\* C10: after an attempt has raised a quota error the call issues no
\* further attempt, _generate_with_retry ends with None, and the call
\* returns with exactly one fallback payload produced.
C10_QuotaErrorEndsRetries ==
    \A t \in Threads :
        aborted[t] > 0 =>
            /\ issued[t] = aborted[t]
            /\ pc[t] \in {"respond", "ret"}
            /\ generated[t] = PyNone
            /\ pc[t] = "ret" => fallbacks[t] = 1

\* C10 witness: the first attempt failed with a transient error, the second
\* raised a quota error, and the call has returned.
C10_Witness ==
    /\ pc[Main] = "ret"
    /\ aborted[Main] = max_retries
    /\ issued[Main] = max_retries
    /\ fallbacks[Main] = 1

(***************************************************************************)
(* The Generation Client                                                   *)
(***************************************************************************)

\* C11: one call of _generate_with_retry issues at most max_retries = 2
\* calls of generate_content, whatever they return or raise, and none after
\* an attempt has returned a text.
C11_AtMostTwoAttempts ==
    \A t \in Threads :
        /\ issued[t] <= max_retries
        /\ generated[t].t = "str" => pc[t] \in {"respond", "ret"}

\* C11 witness: the first attempt failed, the second returned a text, and
\* the call has returned.
C11_Witness ==
    /\ pc[Main] = "ret"
    /\ issued[Main] = max_retries
    /\ generated[Main] = PyStr(Strip(TextShort))

\* C12: _generate_with_retry always returns, and what it returns is None or
\* the stripped text of an attempt that had a text; AIService.generate_answer
\* always returns, and what it returns is a payload with an answer and a list
\* of links.
C12_ClientNeverRaises ==
    \A t \in Threads :
        pc[t] = "respond" =>
            /\ generated[t] \in AiResponses
            /\ \E k \in Returns :
                  /\ k.question = question_in[t]
                  /\ k.context = context_in[t]
                  /\ k.ai_response = generated[t]
            /\ \A k \in Returns :
                  (/\ k.question = question_in[t]
                   /\ k.context = context_in[t]
                   /\ k.ai_response = generated[t]) =>
                      /\ ReturnedOf[k].client.t = "dict"
                      /\ DOMAIN ReturnedOf[k].client.d = {"answer", "links"}
                      /\ ReturnedOf[k].client.d["answer"].t = "str"
                      /\ ReturnedOf[k].client.d["answer"].s # <<>>
                      /\ ReturnedOf[k].client.d["links"].t = "list"

\* C12 witness: generate_content raised a quota error in the first round and
\* _generate_with_retry has returned None.
C12_Witness ==
    /\ pc[Main] = "respond"
    /\ issued[Main] = 1
    /\ aborted[Main] = 1
    /\ generated[Main] = PyNone

(***************************************************************************)
(* Input errors                                                            *)
(***************************************************************************)

\* C13: the step that handles a JSON dict whose question is missing, empty
\* after trimming or longer than 1000 characters ends the request with status
\* 400 and the fixed message for that case, and changes nothing of the
\* orchestrator, of a generate_answer call, of the counts of calls made, or
\* of the rate-limit record.
C13_RejectedBeforePipeline ==
    [][LET data == request.data
           missing == "question" \notin DOMAIN data.d
           trimmed == IF missing THEN <<>> ELSE Strip(data.d["question"].s)
           message == IF trimmed = <<>> THEN ApiMessages.no_question
                      ELSE ApiMessages.too_long
       IN  (/\ api_pc = "parse"
            /\ request.valid_json
            /\ data.t = "dict"
            /\ missing \/ data.d["question"].t = "str"
            /\ trimmed = <<>> \/ Len(trimmed) > QuestionLimit) =>
               /\ api_pc' = "done"
               /\ http_response' = [status |-> 400,
                                    payload |-> Payload(message, <<ForumLink>>)]
               /\ UNCHANGED <<instVars, callVars, histVars, recorded>>]_vars

\* C13 witness: a process that has generated answers has rejected a question
\* of 1001 characters.
C13_Witness ==
    /\ api_pc = "done"
    /\ gen_total > 0
    /\ request.data.t = "dict"
    /\ "question" \in DOMAIN request.data.d
    /\ request.data.d["question"] = PyStr(Rep("a", QuestionLimit + 1))
    /\ http_response = [status |-> 400,
                        payload |-> Payload(ApiMessages.too_long, <<ForumLink>>)]
    /\ ~recorded
    /\ pc[Main] = "idle"

(***************************************************************************)
(* The Response Validator                                                  *)
(***************************************************************************)

\* C14: the validator returns a dict for every input, and it returns the safe
\* default (the "validation failed" answer with the one forum link) whenever
\* a step fails: the input is no dict, str() of the answer or of a link's url
\* or text raises, or json.dumps rejects a value of the payload.
C14_ValidatorTotal ==
    api_pc = "respond" =>
        /\ validated_response.t = "dict"
        /\ LET d == answer_data.d
               notDict == answer_data.t # "dict"
               answerRaises == "answer" \in DOMAIN d /\ d["answer"].t = "raiser"
               linkRaises ==
                   /\ "links" \in DOMAIN d
                   /\ d["links"].t = "list"
                   /\ \E i \in 1..Len(d["links"].d) :
                         LET link == d["links"].d[i]
                         IN  /\ link.t = "dict"
                             /\ {"url", "text"} \subseteq DOMAIN link.d
                             /\ "raiser" \in {link.d["url"].t, link.d["text"].t}
               notJson == \E k \in DOMAIN d \ {"answer", "links"} : d[k].t = "bytes"
           IN  (notDict \/ answerRaises \/ linkRaises \/ notJson) =>
                   validated_response =
                       PyDict([answer |-> PyStr(MsgValidationFailed),
                               links |-> PyList(<<Link(ForumUrl, ForumText)>>)])

\* C14 witness: a dict with a good answer, a good link and a bytes value under
\* a third key has been validated.
C14_Witness ==
    /\ api_pc = "respond"
    /\ answer_data = PyDict([answer |-> PyStr(SampleText),
                             links |-> PyList(<<Link(SampleUrl, SampleText)>>),
                             extra |-> PyBytes])
    /\ validated_response = SafeDefault

\* C15 as stated: for a str answer the validator (when no step of it fails)
\* puts out the first 1997 characters of the trimmed answer and "..." when
\* the trimmed answer is longer than 2000, and the trimmed answer itself
\* when it is not.
C15_TruncationAsStated ==
    (/\ api_pc = "respond"
     /\ answer_data.t = "dict"
     /\ "answer" \in DOMAIN answer_data.d
     /\ answer_data.d["answer"].t = "str"
     /\ validated_response # SafeDefault) =>
        LET trimmed == Strip(answer_data.d["answer"].s)
        IN  validated_response.d["answer"] =
                PyStr(IF Len(trimmed) > 2000
                      THEN Take(trimmed, 1997) \o <<".", ".", ".">>
                      ELSE trimmed)

\* C15, amended: as above for a trimmed answer of at least one character; an
\* answer that is empty after trimming is replaced by the "no meaningful
\* answer" sentence.
C15_Truncation ==
    (/\ api_pc = "respond"
     /\ answer_data.t = "dict"
     /\ "answer" \in DOMAIN answer_data.d
     /\ answer_data.d["answer"].t = "str"
     /\ validated_response # SafeDefault) =>
        LET trimmed == Strip(answer_data.d["answer"].s)
            out == validated_response.d["answer"]
        IN  /\ Len(trimmed) > 2000 =>
                  /\ out = PyStr(Take(trimmed, 1997) \o <<".", ".", ".">>)
                  /\ Len(out.s) = 2000
            /\ (Len(trimmed) >= 1 /\ Len(trimmed) <= 2000) => out = PyStr(trimmed)
            /\ Len(trimmed) = 0 => out = PyStr(MsgNoMeaningfulAnswer)

\* C15 witness: an answer of 2001 characters with white space around it has
\* been cut to 1997 characters and the ellipsis.
C15_Witness ==
    /\ api_pc = "respond"
    /\ answer_data.t = "dict"
    /\ "answer" \in DOMAIN answer_data.d
    /\ answer_data.d["answer"] = PyStr(<<" ">> \o Rep("x", 2001) \o <<" ", " ">>)
    /\ validated_response.d["answer"] = PyStr(Rep("x", 1997) \o <<".", ".", ".">>)

\* C16 as stated: the links the validator puts out (when no step of it
\* fails) are the input entries that are dicts with 'url' and 'text', a
\* trimmed url that is not empty and starts with "http" and a trimmed text
\* that is not empty, in their input order; the one forum link when there is
\* no such entry.
C16_LinksAsStated ==
    (/\ api_pc = "respond"
     /\ answer_data.t = "dict"
     /\ validated_response # SafeDefault) =>
        LET d == answer_data.d
            given == IF "links" \in DOMAIN d /\ d["links"].t = "list"
                     THEN d["links"].d ELSE <<>>
            Qualifies(link) ==
                /\ link.t = "dict"
                /\ {"url", "text"} \subseteq DOMAIN link.d
                /\ Strip(Str(link.d["url"])) # <<>>
                /\ Strip(Str(link.d["text"])) # <<>>
                /\ StartsWith(Strip(Str(link.d["url"])), <<"h", "t", "t", "p">>)
            kept == SelectSeq(given, Qualifies)
        IN  validated_response.d["links"] =
                PyList(IF kept = <<>> THEN <<Link(ForumUrl, ForumText)>> ELSE kept)

\* C16, amended: the links put out are those entries in their input order,
\* each as a dict of the trimmed str() of its url and of its text and nothing
\* else; the one forum link when there is no such entry.
C16_Links ==
    (/\ api_pc = "respond"
     /\ answer_data.t = "dict"
     /\ validated_response # SafeDefault) =>
        LET d == answer_data.d
            given == IF "links" \in DOMAIN d /\ d["links"].t = "list"
                     THEN d["links"].d ELSE <<>>
            Qualifies(link) ==
                /\ link.t = "dict"
                /\ {"url", "text"} \subseteq DOMAIN link.d
                /\ Strip(Str(link.d["url"])) # <<>>
                /\ Strip(Str(link.d["text"])) # <<>>
                /\ StartsWith(Strip(Str(link.d["url"])), <<"h", "t", "t", "p">>)
            kept == SelectSeq(given, Qualifies)
            trimmed == AsList([i \in 1..Len(kept) |->
                                 PyDict([url |-> PyStr(Strip(Str(kept[i].d["url"]))),
                                         text |-> PyStr(Strip(Str(kept[i].d["text"])))])])
        IN  validated_response.d["links"] =
                PyList(IF kept = <<>> THEN <<Link(ForumUrl, ForumText)>> ELSE trimmed)

\* C16 witness: a list of a link with white space around its url and text and
\* a second good link has been validated; both are put out, in that order.
C16_Witness ==
    /\ api_pc = "respond"
    /\ answer_data.t = "dict"
    /\ "links" \in DOMAIN answer_data.d
    /\ answer_data.d["links"] =
           PyList(<<Link(<<" ">> \o ForumUrl \o <<" ">>, <<" ">> \o ForumText),
                    Link(SampleUrl, SampleText)>>)
    /\ validated_response.d["links"] =
           PyList(<<Link(ForumUrl, ForumText), Link(SampleUrl, SampleText)>>)


(***************************************************************************)
(* Link extractor, fallback tiers and relevance scorer                     *)
(***************************************************************************)

\* C17: for every context and question the link extractor returns one or
\* two links, each with a non-empty text and a url starting with "http";
\* when the context holds no forum URL it returns exactly one link, the
\* assignment-help link if the question contains 'assignment', 'homework'
\* or 'submit' and the course-forum link otherwise.
C17_OneOrTwoLinks ==
    pc[Main] = "links" =>
        LET links == result[Main].d
            context == context_in[Main]
            question_lower == Lower(question_in[Main])
            hasForumUrl == \E i \in 1..Len(context) : TopicUrlEnd(context, i) > 0
            hasAssignmentWord ==
                \/ Contains(question_lower, <<"a","s","s","i","g","n","m","e","n","t">>)
                \/ Contains(question_lower, <<"h","o","m","e","w","o","r","k">>)
                \/ Contains(question_lower, <<"s","u","b","m","i","t">>)
        IN  /\ result[Main].t = "list"
            /\ Len(links) \in {1, 2}
            /\ \A i \in 1..Len(links) :
                  /\ IsLinkDict(links[i])
                  /\ links[i].d.url.t = "str"
                  /\ links[i].d.text.t = "str"
                  /\ StartsWith(links[i].d.url.s, HttpPrefix)
                  /\ Len(links[i].d.text.s) >= 1
            /\ ~hasForumUrl =>
                  links = IF hasAssignmentWord
                          THEN <<Link(AssignmentLink.url, AssignmentLink.text)>>
                          ELSE <<ForumLink>>

\* C17 witness: a context with three distinct forum URLs has yielded two
\* links.
C17_Witness ==
    /\ pc[Main] = "links"
    /\ LET urls == FindTopicUrls(context_in[Main])
       IN  Cardinality({urls[i] : i \in 1..Len(urls)}) >= 3
    /\ Len(result[Main].d) = 2
    /\ result[Main].d[1] # result[Main].d[2]

\* C17 witness of the second half: no forum URL in the context and an
\* assignment keyword in the question gave the assignment-help link alone.
C17_WitnessNoUrl ==
    /\ pc[Main] = "links"
    /\ FindTopicUrls(context_in[Main]) = <<>>
    /\ Contains(Lower(question_in[Main]), <<"h","o","m","e","w","o","r","k">>)
    /\ result[Main].d = <<Link(AssignmentLink.url, AssignmentLink.text)>>

\* C18: for every question and context, the payload the category fallback
\* or the context-aware fallback returns meets the output contract by
\* itself: an answer of 1 to 2000 characters and at least one link with a
\* url starting with "http" and a non-empty text.
C18_TiersMeetContract ==
    pc[Main] \in {"category", "contextual"} => IsAnswerPayload(result[Main])

\* C19: the category fallback returns the canned answer of the first of the
\* buckets AI/model, Python/setup, assignment, version control, debugging
\* one of whose keywords is in the question, and the generic answer when
\* none is; the question "How do I set up my Python virtual environment?"
\* gets the Python setup answer; the link's url starts with
\* "https://discourse".
C19_FirstBucketWins ==
    pc[Main] = "category" =>
        LET question_lower == Lower(question_in[Main])
            buckets == <<CatAi, CatPython, CatAssignment, CatGit, CatDebug>>
            has(i) == \E k \in 1..Len(buckets[i].words) :
                          Contains(question_lower, buckets[i].words[k])
            answer == result[Main].d["answer"].s
            links == result[Main].d["links"].d
        IN  /\ \A i \in 1..Len(buckets) :
                  (has(i) /\ \A j \in 1..(i - 1) : ~has(j)) =>
                      /\ answer = buckets[i].answer
                      /\ links[1].d.text.s = buckets[i].text
            /\ (\A i \in 1..Len(buckets) : ~has(i)) => answer = CatAnswerGeneric
            /\ Len(links) = 1
            /\ StartsWith(links[1].d.url.s, <<"h","t","t","p","s",":","/","/","d","i","s","c","o","u","r","s","e">>)
            /\ (question_in[Main] =
                  <<"H","o","w"," ","d","o"," ","I"," ","s","e","t"," ","u","p"," ","m","y"," ","P",
              "y","t","h","o","n"," ","v","i","r","t","u","a","l"," ","e","n","v","i","r","o",
              "n","m","e","n","t","?">>) => answer = CatPython.answer

\* C19 witness: a question with keywords of the Python and of the
\* version-control bucket, and of no earlier one, got the Python answer.
C19_Witness ==
    /\ pc[Main] = "category"
    /\ AnyWordIn(CatPython.words, Lower(question_in[Main]))
    /\ AnyWordIn(CatGit.words, Lower(question_in[Main]))
    /\ ~AnyWordIn(CatAi.words, Lower(question_in[Main]))
    /\ result[Main].d["answer"].s = CatPython.answer
    /\ result[Main].d["answer"].s # CatGit.answer

\* C19 witness of the scenario: the Python set-up question got the Python
\* answer.
C19_WitnessScenario ==
    /\ pc[Main] = "category"
    /\ question_in[Main] =
                  <<"H","o","w"," ","d","o"," ","I"," ","s","e","t"," ","u","p"," ","m","y"," ","P",
              "y","t","h","o","n"," ","v","i","r","t","u","a","l"," ","e","n","v","i","r","o",
              "n","m","e","n","t","?">>
    /\ result[Main].d["answer"].s = CatPython.answer

\* C20: two calls of the relevance scorer with the same question on the
\* same store return the same context string, and a call leaves
\* course_content and discourse_posts as they were loaded.
C20_ScorerIdempotent ==
    /\ \A t, u \in Threads :
          (pc[t] = "scored" /\ pc[u] = "scored" /\ question_in[t] = question_in[u])
              => context_in[t] = context_in[u]
    /\ \A t \in Threads :
          pc[t] = "scored" => /\ course_content = CourseContent
                              /\ discourse_posts = DiscoursePosts

\* C20 witness: both callers have had an answer from the scorer for a
\* question of several words, and it holds matches from the store.
C20_Witness ==
    /\ \A t \in Threads : pc[t] = "scored"
    /\ Cardinality(WordSet(Lower(question_in[1]))) >= 2
    /\ question_in[1] = question_in[2]
    /\ context_in[1] = context_in[2]
    /\ context_in[1] # MsgNoContent
    /\ Len(FindTopicUrls(context_in[1])) >= 2

(***************************************************************************)
(* Image notice                                                            *)
(***************************************************************************)

\* C21: the notice for an image names the format its leading bytes show
\* (JPEG, PNG, GIF, WEBP, else Unknown) and the number of decoded bytes;
\* more than 10 MiB of decoded bytes give the fixed "too large" notice and
\* a string that cannot be decoded gives the fixed "could not be processed"
\* notice.
C21_ImageNotice ==
    (image_context # Unset /\ image_b64 # [head |-> <<>>, fill |-> 0, tail |-> <<>>]) =>
        LET image_data == b64decode(image_b64)
            size == Len(image_data.lead) + image_data.zeros + Len(image_data.rest)
            first == Take(image_data.lead
                              \o Rep(0, IF image_data.zeros < 12 THEN image_data.zeros ELSE 12)
                              \o image_data.rest, 12)
            jpeg == StartsWith(first, <<255, 216, 255>>)
            png  == StartsWith(first, <<137, 80, 78, 71>>)
            gif  == StartsWith(first, <<71, 73, 70>>)
            webp == StartsWith(first, <<82, 73, 70, 70>>) /\ Contains(first, <<87, 69, 66, 80>>)
            name == IF jpeg THEN <<"(","J","P","E","G",",">>
                    ELSE IF png THEN <<"(","P","N","G",",">>
                    ELSE IF gif THEN <<"(","G","I","F",",">>
                    ELSE IF webp THEN <<"(","W","E","B","P",",">>
                    ELSE <<"(","U","n","k","n","o","w","n",",">>
        IN  IF ~image_data.ok THEN image_context = MsgImageFailed
            ELSE IF size > 10 * 1024 * 1024 THEN image_context = MsgImageTooLarge
            ELSE /\ Contains(image_context, name)
                 /\ Contains(image_context,
                             <<" ">> \o Digits(size) \o <<" ","b","y","t","e","s">>)

\* C21 witness: a PNG of exactly 10 MiB has been given its notice.
C21_Witness ==
    /\ image_context # Unset
    /\ image_b64.fill > 1
    /\ Len(image_b64.head) + image_b64.fill * 4 + Len(image_b64.tail) > 10 * 1024 * 1024
    /\ Contains(image_context, <<"(","P","N","G",","," ","1","0","4","8","5","7","6","0"," ">>)

(***************************************************************************)
(* Budget, backoff and termination of a call                               *)
(***************************************************************************)

\* C22: a call that passes the daily-limit check stamps last_request_time,
\* then raises request_count by exactly 1, and only then enters the
\* Generation Client; whatever generation does afterwards (text, errors, a
\* quota abort, no text), request_count stays one above what the call found.
C22_CountedBeforeInvoke ==
    /\ [](\A t \in Threads :
            pc[t] \in {"gemini", "attempt", "backoff", "respond", "ret"}
                /\ ~LimitReached(entry_count[t])
            => request_count = entry_count[t] + 1)
    /\ [][\A t \in Threads :
            /\ (pc[t] # "load" /\ pc'[t] = "load") =>
                   (pc[t] = "stamp" /\ time_since_last' = 0)
            /\ (pc[t] # "store" /\ pc'[t] = "store") => pc[t] = "load"
            /\ (pc[t] # "gemini" /\ pc'[t] = "gemini") =>
                   (pc[t] = "store" /\ request_count' = request_count + 1)
            /\ (~invoked[t] /\ invoked'[t]) =>
                   (pc[t] = "gemini" /\ request_count' = entry_count[t] + 1)]_vars

\* C22 witness: a call whose first attempt was stopped by a quota error is
\* about to return, the count one above what it found.
C22_Witness ==
    /\ pc[Main] = "ret"
    /\ invoked[Main]
    /\ aborted[Main] = 1
    /\ fallbacks[Main] >= 1
    /\ entry_count[Main] >= 1
    /\ request_count = entry_count[Main] + 1

\* C23: within one call, a second generate_content attempt is issued only
\* after the backoff sleep of BackoffDelay seconds that follows the first,
\* whether the first raised an error or returned no text.
C23_BackoffBeforeRetry ==
    [][\A t \in Threads :
          (issued[t] >= 1 /\ issued'[t] = issued[t] + 1) => since_last_call >= BackoffDelay]_vars

\* C24: every call of generate_answer comes to return a payload; on the
\* way it issues at most max_retries attempts, never sleeps longer than
\* min_delay for the throttle or BackoffDelay between attempts, and once it
\* is past the throttle sleep it does not come back to it before it returns.
C24_CallReturns ==
    /\ (pc[Main] = "check") ~> (pc[Main] = "ret" /\ result[Main].t = "dict")
    /\ [](/\ issued[Main] <= max_retries
          /\ pc[Main] = "sleeping" => sleep_left[Main] <= min_delay
          /\ pc[Main] = "backoff" => sleep_left[Main] <= BackoffDelay)
    /\ [][/\ pc'[Main] \in {"sleep", "sleeping"} =>
               pc[Main] \in {"time", "sleep", "sleeping"}
          /\ pc'[Main] = "time" => pc[Main] \in {"check", "time"}]_vars

\* C24 witness: a call that slept for the throttle and used up its
\* attempts has its payload and is about to return.
C24_Witness ==
    /\ pc[Main] = "ret"
    /\ waited[Main]
    /\ issued[Main] = max_retries
    /\ result[Main].t = "dict"
    /\ aborted[Main] = 0

\* The forum URLs of the context, each once, in the order of first occurrence.
RECURSIVE FirstOccurrences(_, _)
FirstOccurrences(urls, kept) ==
    IF urls = <<>> THEN kept
    ELSE FirstOccurrences(Tail(urls),
                          IF \E i \in 1..Len(kept) : kept[i] = Head(urls)
                          THEN kept
                          ELSE Append(kept, Head(urls)))

\* C25: the Link Extractor returns the links of the first 2 distinct forum
\* URLs of the context in the order of their first occurrence, so the
\* result is a function of the context and the question alone.
C25_DiscoveryOrder ==
    pc[Main] = "links" =>
        result[Main] =
            PyList(extract_relevant_links(
                       context_in[Main], question_in[Main],
                       FirstOccurrences(FindTopicUrls(context_in[Main]), <<>>)))

\* The places where `sub` starts in `text`.
StartsOf(text, sub) ==
    {i \in 1..(Len(text) - Len(sub) + 1) : SubSeq(text, i, i + Len(sub) - 1) = sub}

\* The first words of a rendered document and of a rendered forum post.
CourseMarker == Take(CourseText([title |-> <<>>, content |-> <<>>]), 18)
PostMarker == Take(PostText([title |-> <<>>, url |-> <<>>, content |-> <<>>, tags |-> <<>>]), 16)

\* The documents and the forum posts of the store that score above 0 for the
\* question of thread t (the score does not depend on the order of the words).
ScoringDocs(t) ==
    LET question_lower == Lower(question_in[t])
        word_order == CHOOSE o \in WordOrders(question_lower) : TRUE
    IN  {i \in 1..Len(course_content) :
            course_relevance_score(question_lower, word_order, course_content[i]) > 0}

ScoringPosts(t) ==
    LET question_lower == Lower(question_in[t])
        word_order == CHOOSE o \in WordOrders(question_lower) : TRUE
    IN  {i \in 1..Len(discourse_posts) :
            post_relevance_score(question_lower, word_order, discourse_posts[i]) > 0}

\* The forum posts with two or more posts ranked before them: a higher
\* score, or the same score and an earlier place in the store.
PostsRankedThirdOrLater(t) ==
    LET question_lower == Lower(question_in[t])
        word_order == CHOOSE o \in WordOrders(question_lower) : TRUE
        score(i) == post_relevance_score(question_lower, word_order, discourse_posts[i])
    IN  {i \in ScoringPosts(t) :
            Cardinality({j \in ScoringPosts(t) :
                            score(j) > score(i) \/ (score(j) = score(i) /\ j < i)}) >= 2}

CourseHeading(section_data) == Take(CourseText(section_data), Len(CourseMarker) + Len(section_data.title) + 1)
PostHeading(post) == Take(PostText(post), Len(PostMarker) + Len(post.title) + 1)

\* Items of one kind in a context: those whose heading is in it are in
\* descending order of score, equal scores in the order of the store, and
\* none of them scores less than an item that is left out.
RankedIn(context, headings, scores) ==
    LET n == Len(headings)
        selected == {i \in 1..n : Contains(context, headings[i])}
        at(i) == SetMin(StartsOf(context, headings[i]))
    IN  /\ \A i, j \in selected :
               at(i) < at(j) <=>
                   (scores[i] > scores[j] \/ (scores[i] = scores[j] /\ i < j))
        /\ \A i \in selected : \A j \in (1..n) \ selected : scores[j] <= scores[i]

\* The scores of the documents and of the forum posts for the question of
\* thread t.
DocScores(t) ==
    LET question_lower == Lower(question_in[t])
        word_order == CHOOSE o \in WordOrders(question_lower) : TRUE
    IN  AsList([i \in 1..Len(course_content) |->
            course_relevance_score(question_lower, word_order, course_content[i])])

PostScores(t) ==
    LET question_lower == Lower(question_in[t])
        word_order == CHOOSE o \in WordOrders(question_lower) : TRUE
    IN  AsList([i \in 1..Len(discourse_posts) |->
            post_relevance_score(question_lower, word_order, discourse_posts[i])])

\* C27: in a context the documents stand in descending order of score and
\* so do the forum posts, items of equal score in the order of the store;
\* no item in the context scores less than an item of its kind left out.
C27_RankedStable ==
    \A t \in Threads : pc[t] = "scored" =>
        /\ RankedIn(context_in[t],
                    AsList([i \in 1..Len(course_content) |-> CourseHeading(course_content[i])]),
                    DocScores(t))
        /\ RankedIn(context_in[t],
                    AsList([i \in 1..Len(discourse_posts) |-> PostHeading(discourse_posts[i])]),
                    PostScores(t))

\* C27 witness: a context with two forum posts of equal score, a third
\* forum post of a lower score left out, and documents of three different
\* scores.
C27_Witness ==
    /\ pc[Main] = "scored"
    /\ \E i, j \in 1..Len(discourse_posts) :
           /\ i < j
           /\ PostScores(Main)[i] = PostScores(Main)[j]
           /\ Contains(context_in[Main], PostHeading(discourse_posts[i]))
           /\ Contains(context_in[Main], PostHeading(discourse_posts[j]))
           /\ \E k \in 1..Len(discourse_posts) :
                  /\ PostScores(Main)[k] > 0
                  /\ PostScores(Main)[k] < PostScores(Main)[i]
                  /\ ~Contains(context_in[Main], PostHeading(discourse_posts[k]))
    /\ \E i, j \in 1..Len(course_content) :
           /\ i < j
           /\ DocScores(Main)[i] < DocScores(Main)[j]
           /\ Contains(context_in[Main], CourseHeading(course_content[i]))
           /\ Contains(context_in[Main], CourseHeading(course_content[j]))

\* The number of words of the question that are words of the text.
WordOverlap(question_lower, text) ==
    Cardinality(WordSet(question_lower) \cap WordSet(Lower(text)))

\* The tags of `tags` found in the question.
TagMatches(question_lower, tags) ==
    Cardinality({k \in 1..Len(tags) : Contains(question_lower, tags[k])})

\* C28: a document scores 2 * (topic tags matching the question) + (words of
\* the question that are words of its content); a forum post scores
\* 3 * (matching tags) + 2 * (words of the question that are words of its
\* title) + (words of the question that are words of its body); a word of
\* the question that is only part of a word of the text adds nothing.
C28_WordOverlapScore ==
    \A t \in Threads : pc[t] = "scored" =>
        LET question_lower == Lower(question_in[t])
        IN  /\ \A i \in 1..Len(course_content) :
                   DocScores(t)[i] =
                       2 * TagMatches(question_lower, course_content[i].topics)
                       + WordOverlap(question_lower, course_content[i].content)
            /\ \A i \in 1..Len(discourse_posts) :
                   PostScores(t)[i] =
                       3 * TagMatches(question_lower, discourse_posts[i].tags)
                       + 2 * WordOverlap(question_lower, discourse_posts[i].title)
                       + WordOverlap(question_lower, discourse_posts[i].content)

\* C29: the links of the context-aware fallback are the links the Link
\* Extractor returns for the same question and context, for some order of
\* its set of URLs.
C29_SameLinksAsExtractor ==
    pc[Main] = "contextual" =>
        \E unique_order \in UniqueOrders(context_in[Main]) :
            result[Main].d.links =
                PyList(extract_relevant_links(context_in[Main], question_in[Main],
                                              unique_order))

\* The bucket the category fallback answered from.
CategoryBucket(payload) ==
    LET answer == payload.d.answer.s
    IN  CASE answer = CatAi.answer -> "ai"
          [] answer = CatPython.answer -> "python"
          [] answer = CatAssignment.answer -> "assignment"
          [] answer = CatGit.answer -> "git"
          [] answer = CatDebug.answer -> "debug"
          [] OTHER -> "generic"

\* The bucket the context-aware fallback answered from: its answer ends in
\* the text of that bucket.
ContextBucket(payload) ==
    LET answer == payload.d.answer.s
        ends(text) == /\ Len(answer) >= Len(text)
                      /\ SubSeq(answer, Len(answer) - Len(text) + 1, Len(answer)) = text
    IN  CASE ends(CtxAi.answer) -> "ai"
          [] ends(CtxPython.answer) -> "python"
          [] ends(CtxAssignment.answer) -> "assignment"
          [] OTHER -> "generic"

\* C30: the context-aware fallback answers every question from the bucket
\* the category fallback answers it from.
C30_SameBucket ==
    pc[Main] = "contextual" =>
        ContextBucket(result[Main]) = CategoryBucket(fallback_response(question_in[Main]))

(***************************************************************************)
(* The counter of one instance, the uninitialized client, the cleaned text *)
(***************************************************************************)

\* C31: on one instance called sequentially request_count stays within
\* 0..daily_limit and never goes down; a call made with request_count at
\* the limit changes neither request_count nor the time stamp, does not
\* wait, does not enter the Generation Client and returns the context-aware
\* fallback, and so does every call after it.
C31_CounterWithinLimit ==
    /\ [](request_count \in 0..daily_limit)
    /\ [][request_count' >= request_count]_vars
    /\ [][(pc[Main] # "idle" /\ entry_count[Main] >= daily_limit) =>
              /\ request_count' = request_count
              /\ time_since_last' >= time_since_last
              /\ last_gap' = last_gap
              /\ pc'[Main] \in {"check", "ret", "idle"}]_vars
    /\ []((pc[Main] = "ret" /\ entry_count[Main] >= daily_limit) =>
              /\ ~waited[Main]
              /\ ~invoked[Main]
              /\ issued[Main] = 0
              /\ result[Main] = intelligent_fallback(question_in[Main], context_in[Main]))
    /\ [](request_count >= daily_limit => [](request_count >= daily_limit))

\* C31 witness: a call made with the counter at the limit is about to
\* return its fallback.
C31_Witness ==
    /\ pc[Main] = "ret"
    /\ entry_count[Main] = daily_limit
    /\ request_count = daily_limit
    /\ fallbacks[Main] = 1
    /\ ~invoked[Main]
    /\ result[Main].t = "dict"

\* C32: with the Generation Client not initialized, no external call is
\* ever made; a call below the daily limit still waits until min_delay has
\* passed since the last stamp, stamps, adds 1 to request_count and then
\* returns the context-aware fallback.
C32_UninitializedStillCounts ==
    /\ [](~is_initialized =>
              /\ gen_total = 0
              /\ \A t \in Threads : ~invoked[t] /\ issued[t] = 0)
    /\ []((~is_initialized /\ pc[Main] = "ret" /\ entry_count[Main] < daily_limit) =>
              /\ request_count = entry_count[Main] + 1
              /\ fallbacks[Main] = 1
              /\ result[Main] = intelligent_fallback(question_in[Main], context_in[Main]))
    /\ [][(~is_initialized /\ pc[Main] # pc'[Main]) =>
              /\ pc'[Main] = "stamp" => (pc[Main] \in {"time", "sleeping"}
                                         /\ time_since_last >= min_delay)
              /\ pc'[Main] = "load" => (pc[Main] = "stamp" /\ time_since_last' = 0)
              /\ pc'[Main] = "store" => pc[Main] = "load"
              /\ pc'[Main] = "gemini" =>
                     (pc[Main] = "store" /\ request_count' = request_count + 1)
              /\ pc'[Main] = "ret" =>
                     \/ pc[Main] = "gemini"
                     \/ pc[Main] = "check" /\ request_count >= daily_limit]_vars

\* C32 witness: the counter has reached the limit on an instance whose
\* client is not initialized, by a call that slept for the throttle.
C32_Witness ==
    /\ ~is_initialized
    /\ pc[Main] = "ret"
    /\ waited[Main]
    /\ entry_count[Main] = daily_limit - 1
    /\ request_count = daily_limit
    /\ gen_total = 0

\* The number of letters of the first sentence of a text: what stands
\* before its first ". ", or the whole text.
FirstSentenceLen(text) ==
    LET at == {i \in 1..(Len(text) - 1) : text[i] = "." /\ text[i + 1] = " "}
    IN  IF at = {} THEN Len(text) ELSE SetMin(at) - 1

\* C33: the answer of _clean_answer_text is never empty and never longer
\* than 1200 characters.  A text of at most 1200 characters after white
\* space is collapsed is returned collapsed; a longer one is cut after the
\* full stop of a sentence, to at most 1001 characters; when the first
\* sentence has more than 1000 characters, or nothing is left of the text,
\* the answer is "I couldn't generate a proper response."
C33_CleanedBounded ==
    pc[Main] = "cleaned" =>
        LET answer == result[Main].s
            collapsed == CollapseSpaces(generated[Main].s)
        IN  /\ result[Main].t = "str"
            /\ Len(answer) >= 1
            /\ Len(answer) <= CleanLimit
            /\ collapsed = <<>> => answer = MsgNoGenerated
            /\ (collapsed # <<>> /\ Len(collapsed) <= CleanLimit) => answer = collapsed
            /\ (Len(collapsed) > CleanLimit /\ FirstSentenceLen(collapsed) > CleanKeep) =>
                   answer = MsgNoGenerated
            /\ (Len(collapsed) > CleanLimit /\ FirstSentenceLen(collapsed) <= CleanKeep) =>
                   /\ Len(answer) <= CleanKeep + 1
                   /\ answer = SubSeq(collapsed, 1, Len(answer))
                   /\ answer[Len(answer)] = "."
                   /\ collapsed[Len(answer) + 1] = " "

\* C33 witness: a text of more than 1200 characters has been cut after its
\* second sentence, to 1001 characters.
C33_Witness ==
    /\ pc[Main] = "cleaned"
    /\ Len(CollapseSpaces(generated[Main].s)) > CleanLimit
    /\ Len(result[Main].s) = CleanKeep + 1
    /\ FirstSentenceLen(result[Main].s) < CleanKeep - 1

\* C33 witness: the first sentence of a text of more than 1200 characters
\* has 1001 letters, and the fixed answer has been returned.
C33_WitnessDefault ==
    /\ pc[Main] = "cleaned"
    /\ Len(CollapseSpaces(generated[Main].s)) > CleanLimit
    /\ FirstSentenceLen(CollapseSpaces(generated[Main].s)) = CleanKeep + 1
    /\ result[Main].s = MsgNoGenerated
=============================================================================
